---- MODULE Spec2Model ----
(***************************************************************************)
(* Tool-calling orchestration of the chat backend.                         *)
(*                                                                         *)
(*   Spec      one request through aiResponse / handleStandardResponse /   *)
(*             handleMCPResponse (src/controllers/chatController.js).      *)
(*             Every await of the handler is a position of pc; the value   *)
(*             (or exception) a collaborator gives back is chosen by the   *)
(*             action that resumes the handler after that await.           *)
(*   FairSpec  Spec with weak fairness of the event loop (every pending    *)
(*             await is eventually resumed).                               *)
(*   RetrySpec one invocation of executeWithRetry (gmail-server.js) or     *)
(*             executeGraphAPICall (teams-server.js).                      *)
(*   ClassifySpec  classifyQueryWithAI called twice on one message.        *)
(*   ToolsSpec     one call of MCPClientManager.getAvailableTools.         *)
(*   CacheSpec     the tool handlers of one server that read or            *)
(*                 invalidate its cache, run interleaved, with a clock.    *)
(*   ToolCallSpec  one tools/call request handled by a server: the         *)
(*                 CallTool handler with the send, draft-update and        *)
(*                 label-delete tools.                                     *)
(*   StatusSpec    getChatStatus, queries handled one after the other.     *)
(*   RetryFairSpec RetrySpec with every call settling, every timer firing. *)
(*   SharedServerSpec  the Gmail server called with the credentials of     *)
(*                 several sessions, or with none.                         *)
(*   ConnectSpec   MCPClientManager: connections made by interleaved       *)
(*                 getAvailableTools, callTool and disconnect.             *)
(*   SessionSpec   the token store and one client's cookie: OAuth          *)
(*                 callbacks, logout, getUserAccessToken.                  *)
(***************************************************************************)
EXTENDS Integers, Sequences, FiniteSets, TLC

VARIABLES
    pc,                   \* position of the request handler
    msgKind,              \* req.body.message: "empty", "string" or "nonstring"
    googleAccessToken,    \* NULL or the Google bearer token
    microsoftAccessToken, \* NULL or the Microsoft bearer token
    classification,       \* result of classifyQueryWithAI
    providers,            \* aiResponse: providers, in push order
    mcpTools,             \* names of the tool declarations offered to the planner
    decision,             \* the planner decision parsed last (decision / nextStepDecision)
    currentDecision,      \* handleMCPResponse: currentDecision
    executedSteps,        \* handleMCPResponse: executedSteps.length
    res,                  \* the HTTP responses sent on res, in order
    escaped,              \* an exception left aiResponse
    lastCall,             \* arguments of the last mcpClient.callTool
    nCallTool,            \* number of mcpClient.callTool invocations
    nPlanner,             \* number of planner LLM calls issued
    nGetTools,            \* number of mcpClient.getAvailableTools invocations
    toolFailed,           \* a tool call failed inside its provider executor
    formatFailed,         \* the formatting LLM call threw
    rx,                   \* state of one executor retry loop (RetrySpec)
    cx,                   \* state of the classifier calls (ClassifySpec)
    gx,                   \* state of one mcpClient.getAvailableTools call (ToolsSpec)
    kx,                   \* an executor's cache and clock (CacheSpec)
    hx,                   \* one tool call handled by a server (ToolCallSpec)
    sx,                   \* one status query (StatusSpec)
    mx,                   \* the gateway's clients and transports (ConnectSpec)
    ux                    \* the token store and one client's cookies (SessionSpec)

chatVars == <<pc, msgKind, googleAccessToken, microsoftAccessToken, classification,
              providers, mcpTools, decision, currentDecision, executedSteps, res,
              escaped, lastCall, nCallTool, nPlanner, nGetTools, toolFailed,
              formatFailed>>

vars == <<chatVars, rx, cx, gx, kx, hx, sx, mx, ux>>

NULL == "null"

GoogleToken == "google-token"

MicrosoftToken == "microsoft-token"

\* const MAX_STEPS = 5
MAX_STEPS == 5

(***************************************************************************)
(* Tool names.  The code reads a name only through startsWith('gmail_') /  *)
(* startsWith('teams_') and through equality with the three send tools.    *)
(***************************************************************************)
GmailTools == {"gmail_send_message", "gmail_list_messages"}

TeamsTools == {"teams_send_message", "teams_post_channel_message",
               "teams_find_chat_by_name"}

\* a name no server declares and that carries neither prefix
OtherTools == {"calendar_lookup"}

ToolNames == GmailTools \cup TeamsTools \cup OtherTools

NoName == "undefined"

MsgKinds == {"empty", "string", "nonstring"}

ToolPrefix(t) ==
    IF t \in GmailTools THEN "gmail_"
    ELSE IF t \in TeamsTools THEN "teams_"
    ELSE ""

StartsWith(t, prefix) == ToolPrefix(t) = prefix

\* the tools whose content field handleMCPResponse validates
SendTools == {"gmail_send_message", "teams_send_message", "teams_post_channel_message"}

\* toolArgs.body / toolArgs.message of a decision:
\*   "ok" real text, "blank" '' or whitespace, "missing" null/undefined field,
\*   "noArgs" toolArgs itself is undefined
Contents(t) == IF t \in SendTools THEN {"ok", "blank", "missing", "noArgs"}
               ELSE {"ok", "noArgs"}

(***************************************************************************)
(* Planner replies.  A reply is an exception, text that is not JSON, the   *)
(* JSON value null, or a decision object.                                  *)
(***************************************************************************)
DecisionObjects ==
    { [kind |-> "object", needsTool |-> TRUE, toolName |-> t, content |-> c,
       requiresNextStep |-> r, nextStepDescription |-> d] :
        t \in ToolNames, c \in {"ok", "blank", "missing", "noArgs"},
        r \in BOOLEAN, d \in BOOLEAN }

ToolDecisions == { x \in DecisionObjects : x.content \in Contents(x.toolName) }

\* decisions that decline a tool: needsTool false, or no toolName given
NoToolDecisions ==
    { x \in { [kind |-> "object", needsTool |-> n, toolName |-> t, content |-> "ok",
               requiresNextStep |-> FALSE, nextStepDescription |-> FALSE] :
                n \in BOOLEAN, t \in ToolNames \cup {NoName} } :
        ~x.needsTool \/ x.toolName = NoName }

Decisions == ToolDecisions \cup NoToolDecisions

NoDecision == [kind |-> "none", needsTool |-> FALSE, toolName |-> NoName,
               content |-> "ok", requiresNextStep |-> FALSE,
               nextStepDescription |-> FALSE]

PlannerReplies == {"throws", "notJSON", "jsonNull"}

\* decision / nextStepDecision after a reply that gave no decision object
Unparsed(reply) == [NoDecision EXCEPT !.kind = reply]

NoCall == [provider |-> NULL, toolName |-> NoName, content |-> "ok", token |-> NULL]

NoClassification == [isEmail |-> FALSE, isTeams |-> FALSE, confidence |-> "none"]

(***************************************************************************)
(* Pure decision logic of aiResponse and handleMCPResponse.                *)
(***************************************************************************)
\* mutant: a provider is offered whenever its domain is flagged, credential or not
Providers_IgnoresCredential(g, m, isEmailQuery, isTeamsQuery) ==
    (IF isEmailQuery THEN <<"gmail">> ELSE <<>>)
    \o (IF isTeamsQuery THEN <<"teams">> ELSE <<>>)

\* aiResponse: providers.push('gmail') / providers.push('teams')
Providers(g, m, isEmailQuery, isTeamsQuery) ==
    (IF g # NULL /\ isEmailQuery THEN <<"gmail">> ELSE <<>>)
    \o (IF m # NULL /\ isTeamsQuery THEN <<"teams">> ELSE <<>>)

\* the declarations a provider's server lists
ToolsOf(p) == IF p = "gmail" THEN GmailTools ELSE TeamsTools

PrimaryProvider == providers[1]

AccessToken == IF PrimaryProvider = "gmail" THEN googleAccessToken
               ELSE microsoftAccessToken

\* mutant: the needsTool flag is not consulted
NeedsTool_IgnoresFlag(d) == d.toolName # NoName

\* if (decision.needsTool && decision.toolName)
NeedsTool(d) == d.needsTool /\ d.toolName # NoName

\* !toolArgs.body || toolArgs.body.trim() === ''   (resp. toolArgs.message)
ContentRejected(d) == d.toolName \in SendTools /\ d.content \in {"blank", "missing"}

\* reading toolArgs.body / toolArgs.message of an undefined toolArgs
ContentThrows(d) == d.toolName \in SendTools /\ d.content = "noArgs"

\* provider and token chosen from the tool name's prefix
StepProvider(t) ==
    IF StartsWith(t, "gmail_") THEN "gmail"
    ELSE IF StartsWith(t, "teams_") THEN "teams"
    ELSE PrimaryProvider

\* mutant: every step is sent with the primary provider's token
StepToken_Primary(t) == AccessToken

\* tokenToUse / stepToken
StepToken(t) ==
    IF StartsWith(t, "gmail_") THEN googleAccessToken
    ELSE IF StartsWith(t, "teams_") THEN microsoftAccessToken
    ELSE AccessToken

\* mutant: the Microsoft token is not checked
AuthRequired_GmailOnly(t) ==
    IF StartsWith(t, "gmail_") /\ googleAccessToken = NULL THEN "google"
    ELSE "none"

\* the auth_required branches: "google", "microsoft" or "none"
AuthRequired(t) ==
    IF StartsWith(t, "gmail_") /\ googleAccessToken = NULL THEN "google"
    ELSE IF StartsWith(t, "teams_") /\ microsoftAccessToken = NULL THEN "microsoft"
    ELSE "none"

\* what the first step does with a parsed decision, up to the callTool await
FirstStepOutcome(d) ==
    IF ~NeedsTool(d) THEN "standard"
    ELSE IF ContentThrows(d) THEN "throwOut"
    ELSE IF ContentRejected(d) THEN "needInfo"
    ELSE IF AuthRequired(d.toolName) # "none" THEN "authRequired"
    ELSE "dispatch"

\* what a continuation step does with a parsed decision
NextStepOutcome(d) ==
    IF ~NeedsTool(d) THEN "break"
    ELSE IF AuthRequired(d.toolName) # "none" THEN "authRequired"
    ELSE "dispatch"

\* mutant: the loop goes on whatever the step's decision says
LoopContinues_IgnoresFlag(d, steps) == steps < MAX_STEPS

\* mutant: the bound is compared with <= instead of <
LoopContinues_OffByOne(d, steps) ==
    d.requiresNextStep /\ d.nextStepDescription /\ steps <= MAX_STEPS

\* while (currentDecision.requiresNextStep && currentDecision.nextStepDescription
\*        && executedSteps.length < MAX_STEPS)
LoopContinues(d, steps) ==
    d.requiresNextStep /\ d.nextStepDescription /\ steps < MAX_STEPS

CallOf(d) == [provider |-> StepProvider(d.toolName), toolName |-> d.toolName,
              content |-> d.content, token |-> StepToken(d.toolName)]

(***************************************************************************)
(* Responses and catch blocks.                                             *)
(***************************************************************************)
Mode(r) == IF "mode" \in DOMAIN r THEN r.mode ELSE "none"

Send(r) == res' = Append(res, r)

StandardResponse == [status |-> 200, success |-> TRUE, usedMCP |-> FALSE,
                     mode |-> "standard"]

\* response: responseText (the planner's raw reply)
ParseErrorResponse == [status |-> 200, success |-> TRUE, usedMCP |-> FALSE,
                       mode |-> "standard", parseError |-> TRUE,
                       response |-> "responseText"]

NeedInfoResponse == [status |-> 200, success |-> FALSE, usedMCP |-> FALSE,
                     mode |-> "error"]

AuthRequiredResponse(who) == [status |-> 200, success |-> FALSE, usedMCP |-> FALSE,
                              mode |-> "auth_required", authRequired |-> who]

\* mutant: the continuation's parse failure answers like the first step's
PartialResponse_AsStandard == [status |-> 200, success |-> TRUE, usedMCP |-> FALSE,
                               mode |-> "standard", parseError |-> TRUE,
                               response |-> "responseText"]

\* response: "I completed n step(s) but couldn't determine the next action ..."
\* followed by the last tool result
PartialResponse == [status |-> 200, success |-> TRUE, usedMCP |-> TRUE,
                    mode |-> "partial", response |-> "completedSteps"]

MultiStepResponse(n) == [status |-> 200, success |-> TRUE, usedMCP |-> TRUE,
                         mode |-> "mcp_multi_step", totalSteps |-> n]

SingleStepResponse == [status |-> 200, success |-> TRUE, usedMCP |-> TRUE,
                       mode |-> "mcp"]

ToolErrorResponse == [status |-> 200, success |-> TRUE, usedMCP |-> FALSE,
                      mode |-> "error", error |-> TRUE]

\* mutant: the outer catch rethrows instead of answering
CatchOuter_Rethrow ==
    /\ res' = res
    /\ pc' = "done"
    /\ escaped' = TRUE

\* aiResponse: catch (error) { res.status(500).json(...) }
CatchOuter ==
    /\ Send([status |-> 500, success |-> FALSE])
    /\ pc' = "done"
    /\ escaped' = escaped

\* aiResponse: catch (mcpError) { fall through to handleStandardResponse }
CatchMcpError ==
    /\ res' = res
    /\ pc' = "awaitStandard"
    /\ escaped' = escaped

\* handleMCPResponse: catch (toolError) { return res.json({... mode: 'error'}) }
CatchToolError ==
    /\ Send(ToolErrorResponse)
    /\ pc' = "done"
    /\ escaped' = escaped

Respond(r) ==
    /\ Send(r)
    /\ pc' = "done"
    /\ escaped' = escaped

Goto(p) ==
    /\ pc' = p
    /\ res' = res
    /\ escaped' = escaped

(***************************************************************************)
(* One request through aiResponse.                                         *)
(***************************************************************************)
RxIdle == [pc |-> "off"]

CxIdle == [pc |-> "off"]

GxIdle == [pc |-> "off"]

KxIdle == [pc |-> "off"]

\* no tool call is being handled by a server
HxIdle == [pc |-> "off"]

\* no status query is being handled
SxIdle == [pc |-> "off"]

MxIdle == [pc |-> "off"]

UxIdle == [pc |-> "off"]

Init ==
    /\ pc = "start"
    /\ msgKind \in MsgKinds
    /\ googleAccessToken = NULL
    /\ microsoftAccessToken = NULL
    /\ classification = NoClassification
    /\ providers = <<>>
    /\ mcpTools = {}
    /\ decision = NoDecision
    /\ currentDecision = NoDecision
    /\ executedSteps = 0
    /\ res = <<>>
    /\ escaped = FALSE
    /\ lastCall = NoCall
    /\ nCallTool = 0
    /\ nPlanner = 0
    /\ nGetTools = 0
    /\ toolFailed = FALSE
    /\ formatFailed = FALSE
    /\ rx = RxIdle
    /\ cx = CxIdle
    /\ gx = GxIdle
    /\ kx = KxIdle
    /\ hx = HxIdle
    /\ sx = SxIdle
    /\ mx = MxIdle
    /\ ux = UxIdle

\* aiResponse up to `await getUserAccessToken(req)`
Receive ==
    /\ pc = "start"
    /\ IF msgKind = "empty"
         THEN Respond([status |-> 400, error |-> TRUE])
         ELSE Goto("awaitToken")
    /\ UNCHANGED <<msgKind, googleAccessToken, microsoftAccessToken, classification,
                   providers, mcpTools, decision, currentDecision, executedSteps,
                   lastCall, nCallTool, nPlanner, nGetTools, toolFailed,
                   formatFailed, rx, cx, gx, kx, hx, sx, mx, ux>>

\* getUserAccessToken returns the two tokens (each possibly null) or throws
TokenReturns ==
    /\ pc = "awaitToken"
    /\ \/ /\ CatchOuter
          /\ UNCHANGED <<googleAccessToken, microsoftAccessToken>>
       \/ /\ googleAccessToken' \in {NULL, GoogleToken}
          /\ microsoftAccessToken' \in {NULL, MicrosoftToken}
          /\ Goto("awaitClassify")
    /\ UNCHANGED <<msgKind, classification, providers, mcpTools, decision,
                   currentDecision, executedSteps, lastCall, nCallTool, nPlanner,
                   nGetTools, toolFailed,
                   formatFailed, rx, cx, gx, kx, hx, sx, mx, ux>>

\* classifyQueryWithAI returns; aiResponse builds providers and either asks the
\* gateway for the tool declarations or goes to handleStandardResponse.
\* A message that is no string makes message.substring (or the fallback's
\* message.toLowerCase) throw into the outer catch.
ClassifyReturns ==
    /\ pc = "awaitClassify"
    /\ IF msgKind = "nonstring"
         THEN /\ CatchOuter
              /\ UNCHANGED <<classification, providers, nGetTools>>
         ELSE \E e \in BOOLEAN, t \in BOOLEAN, c \in {"high", "low"} :
                /\ classification' = [isEmail |-> e, isTeams |-> t, confidence |-> c]
                /\ providers' = Providers(googleAccessToken, microsoftAccessToken, e, t)
                /\ IF Len(providers') > 0
                     THEN /\ Goto("awaitTools")
                          /\ nGetTools' = nGetTools + 1
                     ELSE /\ Goto("awaitStandard")
                          /\ nGetTools' = nGetTools
    /\ UNCHANGED <<msgKind, googleAccessToken, microsoftAccessToken, mcpTools,
                   decision, currentDecision, executedSteps, lastCall, nCallTool,
                   nPlanner, toolFailed,
                   formatFailed, rx, cx, gx, kx, hx, sx, mx, ux>>

\* mcpClient.getAvailableTools returns the declarations of the providers whose
\* listing succeeded (or throws); with declarations, handleMCPResponse starts and
\* issues the first planner call.
ToolsReturn ==
    /\ pc = "awaitTools"
    /\ \/ /\ CatchMcpError
          /\ UNCHANGED <<mcpTools, nPlanner>>
       \/ \E ok \in SUBSET {providers[i] : i \in 1..Len(providers)} :
            /\ mcpTools' = UNION {ToolsOf(p) : p \in ok}
            /\ IF mcpTools' # {}
                 THEN /\ Goto("awaitPlan")
                      /\ nPlanner' = nPlanner + 1
                 ELSE /\ Goto("awaitStandard")
                      /\ nPlanner' = nPlanner
    /\ UNCHANGED <<msgKind, googleAccessToken, microsoftAccessToken, classification,
                   providers, decision, currentDecision, executedSteps, lastCall,
                   nCallTool, nGetTools, toolFailed,
                   formatFailed, rx, cx, gx, kx, hx, sx, mx, ux>>

\* handleStandardResponse: the LLM answers or throws
StandardReturns ==
    /\ pc = "awaitStandard"
    /\ \/ Respond(StandardResponse)
       \/ CatchOuter
    /\ UNCHANGED <<msgKind, googleAccessToken, microsoftAccessToken, classification,
                   providers, mcpTools, decision, currentDecision, executedSteps,
                   lastCall, nCallTool, nPlanner, nGetTools, toolFailed,
                   formatFailed, rx, cx, gx, kx, hx, sx, mx, ux>>

\* handleMCPResponse: the first planner reply, parsed, validated and dispatched
PlanReturns ==
    /\ pc = "awaitPlan"
    /\ \/ \E reply \in PlannerReplies :
            /\ IF reply = "notJSON" THEN Respond(ParseErrorResponse) ELSE CatchMcpError
            /\ decision' = Unparsed(reply)
            /\ UNCHANGED <<lastCall, nCallTool>>
       \/ \E d \in Decisions :
            LET o == FirstStepOutcome(d) IN
            /\ decision' = d
            /\ CASE o = "standard" -> Respond(StandardResponse)
                 [] o = "throwOut" -> CatchMcpError
                 [] o = "needInfo" -> Respond(NeedInfoResponse)
                 [] o = "authRequired" ->
                        Respond(AuthRequiredResponse(AuthRequired(d.toolName)))
                 [] OTHER -> Goto("awaitTool")
            /\ lastCall' = IF o = "dispatch" THEN CallOf(d) ELSE lastCall
            /\ nCallTool' = IF o = "dispatch" THEN nCallTool + 1 ELSE nCallTool
    /\ UNCHANGED <<msgKind, googleAccessToken, microsoftAccessToken, classification,
                   providers, mcpTools, currentDecision, executedSteps, nPlanner,
                   nGetTools, toolFailed,
                   formatFailed, rx, cx, gx, kx, hx, sx, mx, ux>>

\* outcomes of mcpClient.callTool: a result envelope, an envelope with isError
\* (the executor failed: the server's handler catches and returns it), a value
\* without a content list, or an exception of the gateway itself
CallOutcomes == {"ok", "isError", "malformed", "throws"}

\* the loop head after a step: another planner call, or formatting
AfterStep(d, steps) ==
    IF LoopContinues(d, steps)
      THEN /\ Goto("awaitNextPlan")
           /\ nPlanner' = nPlanner + 1
      ELSE /\ Goto("awaitFormat")
           /\ nPlanner' = nPlanner

\* the first tool call returns: executedSteps = [decision.toolName]
ToolReturns ==
    /\ pc = "awaitTool"
    /\ \E out \in CallOutcomes :
         IF out \in {"malformed", "throws"}
           THEN /\ CatchToolError
                /\ UNCHANGED <<currentDecision, executedSteps, nPlanner, toolFailed>>
           ELSE /\ executedSteps' = 1
                /\ currentDecision' = decision
                /\ toolFailed' = (toolFailed \/ out = "isError")
                /\ AfterStep(decision, 1)
    /\ UNCHANGED <<msgKind, googleAccessToken, microsoftAccessToken, classification,
                   providers, mcpTools, decision, lastCall, nCallTool, nGetTools,
                   formatFailed, rx, cx, gx, kx, hx, sx, mx, ux>>

\* a continuation planner reply, parsed and dispatched
NextPlanReturns ==
    /\ pc = "awaitNextPlan"
    /\ \/ \E reply \in PlannerReplies :
            /\ IF reply = "notJSON" THEN Respond(PartialResponse) ELSE CatchToolError
            /\ decision' = Unparsed(reply)
            /\ UNCHANGED <<lastCall, nCallTool>>
       \/ \E d \in Decisions :
            LET o == NextStepOutcome(d) IN
            /\ decision' = d
            /\ CASE o = "break" -> Goto("awaitFormat")
                 [] o = "authRequired" ->
                        Respond(AuthRequiredResponse(AuthRequired(d.toolName)))
                 [] OTHER -> Goto("awaitStepTool")
            /\ lastCall' = IF o = "dispatch" THEN CallOf(d) ELSE lastCall
            /\ nCallTool' = IF o = "dispatch" THEN nCallTool + 1 ELSE nCallTool
    /\ UNCHANGED <<msgKind, googleAccessToken, microsoftAccessToken, classification,
                   providers, mcpTools, currentDecision, executedSteps, nPlanner,
                   nGetTools, toolFailed,
                   formatFailed, rx, cx, gx, kx, hx, sx, mx, ux>>

\* a continuation tool call returns: executedSteps.push(nextStepDecision.toolName)
StepToolReturns ==
    /\ pc = "awaitStepTool"
    /\ \E out \in CallOutcomes :
         IF out \in {"malformed", "throws"}
           THEN /\ CatchToolError
                /\ UNCHANGED <<currentDecision, executedSteps, nPlanner, toolFailed>>
           ELSE /\ executedSteps' = executedSteps + 1
                /\ currentDecision' = decision
                /\ toolFailed' = (toolFailed \/ out = "isError")
                /\ AfterStep(decision, executedSteps + 1)
    /\ UNCHANGED <<msgKind, googleAccessToken, microsoftAccessToken, classification,
                   providers, mcpTools, decision, lastCall, nCallTool, nGetTools,
                   formatFailed, rx, cx, gx, kx, hx, sx, mx, ux>>

\* the formatting LLM call returns text or throws
FormatReturns ==
    /\ pc = "awaitFormat"
    /\ \/ /\ IF executedSteps > 1
               THEN Respond(MultiStepResponse(executedSteps))
               ELSE Respond(SingleStepResponse)
          /\ formatFailed' = formatFailed
       \/ /\ CatchToolError
          /\ formatFailed' = TRUE
    /\ UNCHANGED <<msgKind, googleAccessToken, microsoftAccessToken, classification,
                   providers, mcpTools, decision, currentDecision, executedSteps,
                   lastCall, nCallTool, nPlanner, nGetTools, toolFailed,
                   rx, cx, gx, kx, hx, sx, mx, ux>>

Next ==
    \/ Receive
    \/ TokenReturns
    \/ ClassifyReturns
    \/ ToolsReturn
    \/ StandardReturns
    \/ PlanReturns
    \/ ToolReturns
    \/ NextPlanReturns
    \/ StepToolReturns
    \/ FormatReturns

Spec == Init /\ [][Next]_vars

\* the event loop resumes every pending await
FairSpec == Spec /\ WF_vars(Next)

(***************************************************************************)
(* Properties of the orchestration loop.                                   *)
(***************************************************************************)
Done == pc = "done"

Response == res[1]

\* the decision parsed last asks for a tool
AsksTool == decision.kind = "object" /\ decision.needsTool /\ decision.toolName # NoName

\* the planner has said "one more step" after the step executed last
WantsMore == currentDecision.requiresNextStep /\ currentDecision.nextStepDescription

\* C1: one request never makes more than MAX_STEPS = 5 calls of
\* mcpClient.callTool, whatever the planner answers.
C1_StepBound == nCallTool <= MAX_STEPS

\* the planner asked for one more step after each of five executed steps
C1_Witness == Done /\ nCallTool = MAX_STEPS /\ executedSteps = MAX_STEPS /\ WantsMore

\* C2: whatever the collaborators return or throw, the handler ends having sent
\* exactly one HTTP response, and no exception leaves aiResponse.
C2_OneResponse ==
    /\ [](Len(res) <= 1 /\ ~escaped /\ (Done <=> Len(res) = 1))
    /\ <>Done

\* the planner was consulted, handleMCPResponse threw, and so did the standard LLM
C2_Witness == Done /\ Len(res) = 1 /\ Response.status = 500 /\ nPlanner = 1

\* C3: when the first decision has needsTool = false (or names no tool) the request
\* ends with mode 'standard', usedMCP = false, and no callTool.
C3_StandardPath ==
    (nPlanner = 1 /\ decision.kind = "object"
        /\ (~decision.needsTool \/ decision.toolName = NoName))
    => /\ Done
       /\ Len(res) = 1
       /\ Mode(Response) = "standard"
       /\ Response.usedMCP = FALSE
       /\ nCallTool = 0

\* the planner declined while naming a tool
C3_Witness ==
    /\ Done
    /\ nPlanner = 1
    /\ decision.kind = "object"
    /\ ~decision.needsTool
    /\ decision.toolName \in ToolNames
    /\ Mode(Response) = "standard"

\* the credential the decision's tool would need and the caller lacks
MissingCredential(t) ==
    IF t \in GmailTools /\ googleAccessToken = NULL THEN "google"
    ELSE IF t \in TeamsTools /\ microsoftAccessToken = NULL THEN "microsoft"
    ELSE "none"

\* C4: a decision naming a tool that is not among the declarations offered for this
\* request is never dispatched; the request ends with an error outcome (here: for a
\* decision that passed the content and credential checks).
C4_OnlyDeclaredTools ==
    /\ nCallTool > 0 => lastCall.toolName \in mcpTools
    /\ (Done /\ AsksTool /\ decision.toolName \notin mcpTools
            /\ decision.content = "ok" /\ MissingCredential(decision.toolName) = "none")
         => (Response.success = FALSE \/ Mode(Response) = "error")

\* C5: at every step a send decision whose body/message is missing, empty or blank
\* is never passed to callTool; the request ends asking the user for the content
\* (here: for a decision whose provider credential is present).
C5_NoBlankSend ==
    /\ (nCallTool > 0 /\ lastCall.toolName \in SendTools) => lastCall.content = "ok"
    /\ (Done /\ AsksTool /\ decision.toolName \in SendTools
            /\ decision.content \in {"blank", "missing"}
            /\ MissingCredential(decision.toolName) = "none")
         => Response = NeedInfoResponse

\* C6 as stated: callTool never gets a null credential, and at every step a tool
\* whose provider token is absent yields mode 'auth_required' naming the provider,
\* with no tool call for that step.
C6_AuthRequiredAlways ==
    /\ nCallTool > 0 => lastCall.token # NULL
    /\ (AsksTool /\ MissingCredential(decision.toolName) # "none")
         => /\ Done
            /\ Response = AuthRequiredResponse(MissingCredential(decision.toolName))
            /\ nCallTool = executedSteps

\* the first step's content validation comes before its credential check
FirstStepContentCheck ==
    nPlanner = 1 /\ decision.toolName \in SendTools /\ decision.content # "ok"

\* C6 amended: callTool never gets a null credential; a tool whose provider token is
\* absent is never called for that step, and the response is 'auth_required' naming
\* the provider unless the first step's content validation rejected the decision
\* before (blank or missing content: the 'error' response asking for it; toolArgs
\* absent: the exception falls back to the standard path).
C6_NoNullCredential ==
    /\ nCallTool > 0 => lastCall.token # NULL
    /\ (AsksTool /\ MissingCredential(decision.toolName) # "none")
         => /\ nCallTool = executedSteps
            /\ IF ~FirstStepContentCheck
                 THEN Done /\ Response =
                        AuthRequiredResponse(MissingCredential(decision.toolName))
               ELSE IF decision.content = "noArgs"
                 THEN pc \in {"awaitStandard", "done"}
                      /\ (Done => Response \in {StandardResponse,
                                                [status |-> 500, success |-> FALSE]})
               ELSE Done /\ Response = NeedInfoResponse

\* a continuation step switches to Teams without a Microsoft token
C6_Witness ==
    /\ Done
    /\ executedSteps >= 1
    /\ nCallTool = executedSteps
    /\ AsksTool
    /\ decision.toolName \in TeamsTools
    /\ microsoftAccessToken = NULL
    /\ Mode(Response) = "auth_required"
    /\ Response.authRequired = "microsoft"

\* the classifier ran and no flagged domain has a credential
NoUsableProvider ==
    /\ classification.confidence # "none"
    /\ ~(googleAccessToken # NULL /\ classification.isEmail)
    /\ ~(microsoftAccessToken # NULL /\ classification.isTeams)

\* C7 as stated: with no flagged domain, or no credential for any flagged domain,
\* the answer is mode 'standard' with usedMCP = false and the gateway is never used.
C7_StandardAlways ==
    NoUsableProvider
    => /\ nGetTools = 0
       /\ nCallTool = 0
       /\ Done => Response = StandardResponse

\* C7 amended: with no usable provider the request goes to handleStandardResponse
\* without getAvailableTools, planner or callTool; the answer is mode 'standard'
\* with usedMCP = false, or the 500 error response when that LLM call throws.
C7_NoToolsOffered ==
    NoUsableProvider
    => /\ nGetTools = 0
       /\ nCallTool = 0
       /\ nPlanner = 0
       /\ pc \in {"awaitStandard", "done"}
       /\ Done => Response \in {StandardResponse, [status |-> 500, success |-> FALSE]}

\* a flagged domain without its credential, answered by the standard path
C7_Witness ==
    /\ Done
    /\ NoUsableProvider
    /\ classification.isEmail
    /\ googleAccessToken = NULL
    /\ Response = StandardResponse

\* C8: once a tool call has failed inside its executor, no further planner or tool
\* call is issued and the response has mode 'error'.
C8_FailureEndsRequest ==
    toolFailed
    => /\ pc \notin {"awaitNextPlan", "awaitStepTool"}
       /\ Done => Mode(Response) = "error"

\* C9: a chain stopped by the step bound while the planner still asked for more is
\* answered with mode 'partial'.
C9_BoundIsPartial ==
    (Done /\ executedSteps = MAX_STEPS /\ WantsMore) => Mode(Response) = "partial"

\* the planner reply parsed last was not JSON
ParseFailed == decision.kind = "notJSON"

\* C13 as stated: at any planning call a reply that is not JSON ends the request
\* with no further tool call, nothing thrown, and the raw reply as a mode
\* 'standard' answer.
C13_ParseFailureIsStandard ==
    ParseFailed
    => /\ Done
       /\ ~escaped
       /\ Len(res) = 1
       /\ nCallTool = executedSteps
       /\ Mode(Response) = "standard"
       /\ Response.response = "responseText"

\* C13 amended: a reply that is not JSON ends the request with one response, no
\* further tool call and nothing thrown; at the first step the response is the raw
\* reply with mode 'standard' and usedMCP = false, at a continuation step it has
\* mode 'partial' and usedMCP = true and reports the steps completed so far.
C13_ParseFailureEndsRequest ==
    ParseFailed
    => /\ Done
       /\ ~escaped
       /\ Len(res) = 1
       /\ nCallTool = executedSteps
       /\ Response.success
       /\ IF nPlanner = 1
            THEN /\ executedSteps = 0
                 /\ Mode(Response) = "standard"
                 /\ ~Response.usedMCP
                 /\ Response.response = "responseText"
            ELSE /\ executedSteps = nPlanner - 1
                 /\ Mode(Response) = "partial"
                 /\ Response.usedMCP
                 /\ Response.response = "completedSteps"

\* the third planner reply, after two executed steps, is not JSON
C13_Witness ==
    /\ Done
    /\ ParseFailed
    /\ nPlanner = 3
    /\ executedSteps = 2
    /\ nCallTool = 2
    /\ Mode(Response) = "partial"

\* C17: when every tool call succeeded and the formatting LLM call then fails, the
\* request is not reported as failed: the response has usedMCP = true and a mode
\* other than 'error'.
C17_FormatFailureNotFatal ==
    (Done /\ formatFailed /\ ~toolFailed /\ executedSteps >= 1)
    => /\ Response.usedMCP
       /\ Mode(Response) # "error"

\* C32: in every response of the chat endpoint, usedMCP = false implies that
\* no tool call was dispatched through mcpClient.callTool during that request,
\* and usedMCP = true implies at least one was.  Stated of the responses whose
\* mode is not 'error' (a response of mode 'error' follows a call that threw).
C32_UsedMCPIffDispatched ==
    (Done /\ Len(res) = 1 /\ "usedMCP" \in DOMAIN Response
     /\ Mode(Response) # "error")
    => (Response.usedMCP <=> nCallTool >= 1)

\* C25: a continuation planning call is made only after a step whose decision
\* had requiresNextStep = true and only while fewer than 5 steps have been
\* executed; once a step's decision has requiresNextStep = false, or the
\* continuation decision has needsTool = false, no further planner or tool call
\* happens and the result is formatted.
C25_LoopReentry ==
    [][ /\ (pc \in {"awaitTool", "awaitStepTool"} /\ nPlanner' > nPlanner)
             => /\ executedSteps' = executedSteps + 1
                /\ currentDecision'.requiresNextStep
                /\ executedSteps' < MAX_STEPS
                /\ pc' = "awaitNextPlan"
        /\ (pc \in {"awaitTool", "awaitStepTool"}
            /\ executedSteps' = executedSteps + 1
            /\ ~currentDecision'.requiresNextStep)
             => /\ pc' = "awaitFormat"
                /\ nPlanner' = nPlanner /\ nCallTool' = nCallTool
        /\ (pc = "awaitNextPlan" /\ decision'.kind = "object" /\ ~decision'.needsTool)
             => /\ pc' = "awaitFormat"
                /\ nPlanner' = nPlanner /\ nCallTool' = nCallTool
        /\ pc = "awaitFormat"
             => /\ pc' = "done"
                /\ nPlanner' = nPlanner /\ nCallTool' = nCallTool
        /\ pc' = "awaitNextPlan" => nPlanner' = nPlanner + 1
      ]_vars

\* the second step's decision had requiresNextStep = false after a first step
\* that asked for a continuation: two planner calls, two tool calls, formatting
C25_Witness ==
    /\ pc = "awaitFormat"
    /\ executedSteps = 2
    /\ ~currentDecision.requiresNextStep /\ currentDecision.nextStepDescription
    /\ nPlanner = 2
    /\ nCallTool = 2

\* C27: every tool call the loop dispatches carries the credential of the
\* provider selected by the tool name's prefix: a gmail_* tool goes to provider
\* 'gmail' with the Google token, a teams_* tool to provider 'teams' with the
\* Microsoft token, also when the chain switches provider between steps; a
\* Microsoft token is never sent to the Gmail executor nor a Google token to the
\* Teams executor.
C27_CredentialFollowsPrefix ==
    lastCall # NoCall
    => /\ StartsWith(lastCall.toolName, "gmail_")
            => lastCall.provider = "gmail" /\ lastCall.token = GoogleToken
       /\ StartsWith(lastCall.toolName, "teams_")
            => lastCall.provider = "teams" /\ lastCall.token = MicrosoftToken
       /\ lastCall.provider = "gmail" => lastCall.token # MicrosoftToken
       /\ lastCall.provider = "teams" => lastCall.token # GoogleToken

\* the request was routed with gmail as its only provider, and after a first step
\* the chain has dispatched a teams_* tool with the Microsoft token
C27_Witness ==
    /\ pc = "awaitStepTool"
    /\ providers = <<"gmail">>
    /\ executedSteps = 1
    /\ lastCall.toolName = "teams_send_message"
    /\ lastCall.provider = "teams"
    /\ lastCall.token = MicrosoftToken

(***************************************************************************)
(* One invocation of an executor's retry wrapper:                          *)
(* GmailMCPServer.executeWithRetry / TeamsMCPServer.executeGraphAPICall.   *)
(***************************************************************************)
MAX_RETRIES == 10

RETRY_DELAY_MS == 1000

RATE_LIMIT_DELAY_MS == 5000

\* largest Retry-After value (seconds) a 429 of the provider carries in the model
MaxRetryAfter == 2

Executors == {"gmail", "teams"}

\* statusCode of a failed provider call; 0 stands for an error without status
Statuses == {429, 503, 500, 504, 401, 403, 404, 400, 0}

\* error.headers?.['retry-after']: absent, a number of seconds, or no number
NoHeader == -1

NaNHeader == -2

RetryAfterHeaders == {NoHeader, NaNHeader} \cup (0 .. MaxRetryAfter)

RECURSIVE Pow2(_)
\* Math.pow(2, n)
Pow2(n) == IF n = 0 THEN 1 ELSE 2 * Pow2(n - 1)

\* setTimeout(resolve, ms): a NaN delay is run as 1 ms
TimerDelay(ms) == IF ms < 0 THEN 1 ELSE ms

\* mutant: the rate-limit wait does not grow with the retry count
RateLimitDelay_Constant(executor, retryCount, header) ==
    IF executor = "teams" /\ header # NoHeader
      THEN (IF header = NaNHeader THEN -1 ELSE header * 1000)
      ELSE RATE_LIMIT_DELAY_MS

\* retryAfter of the 429 branch; -1 stands for NaN (parseInt of no number)
RateLimitDelay(executor, retryCount, header) ==
    IF executor = "teams" /\ header # NoHeader
      THEN (IF header = NaNHeader THEN -1 ELSE header * 1000)
      ELSE RATE_LIMIT_DELAY_MS * Pow2(retryCount)

\* mutant: the transient wait does not grow with the retry count
TransientDelay_Constant(retryCount) == RETRY_DELAY_MS

\* retryDelay of the transient branch
TransientDelay(retryCount) == RETRY_DELAY_MS * Pow2(retryCount)

\* the statuses of the "transient errors" branch of each executor
TransientStatuses(executor) == IF executor = "gmail" THEN {503, 500} ELSE {503, 504}

RateLimitMessage(executor) ==
    IF executor = "gmail"
      THEN "Gmail API rate limit exceeded. Please try again later."
      ELSE "Microsoft Teams API rate limit exceeded. Please try again later."

\* the message of the Error thrown for a status that is not retried (any more);
\* <message> stands for the provider's own error text
TerminalMessage(executor, status) ==
    IF executor = "gmail"
      THEN CASE status = 401 -> "Your Google session has expired. Please sign in again."
             [] status = 403 -> "You don't have permission to access this Gmail resource. Please check your permissions."
             [] status = 404 -> "The requested email or resource was not found."
             [] status = 400 -> "Invalid request: <message>"
             [] OTHER -> "Gmail API error: <message>"
      ELSE CASE status = 401 -> "Your Microsoft session has expired. Please sign in again."
             [] status = 403 -> "You don't have permission to access this resource. Please check your permissions."
             [] status = 404 -> "The requested resource was not found."
             [] status = 400 -> "Invalid request: <message>"
             [] OTHER -> "Microsoft Graph API error: <message>"

\* the fields of this.cache of each executor
CacheKeys(executor) == IF executor = "gmail" THEN {"labels", "profile"}
                       ELSE {"chats", "teams", "user"}

\* clearCache(): every field null, every expiry 0
clearCache(cache) == {}

\* the statuses answered by a user-facing message of their own
NonRetriedStatuses == {401, 403, 404, 400}

\* this.cache after the catch block threw for a status
CacheAfterThrow(cache, status) == IF status = 401 THEN clearCache(cache) ELSE cache

\* mutant: a transient status is retried once more than the bound allows
OnFailure_TransientOffByOne(executor, status, retryCount) ==
    IF status = 429
      THEN (IF retryCount < MAX_RETRIES THEN "retry429" ELSE "throwRateLimit")
    ELSE IF status \in TransientStatuses(executor) /\ retryCount <= MAX_RETRIES
      THEN "retryTransient"
    ELSE "throwTerminal"

\* mutant: 404 is taken for a transient status
OnFailure_Retries404(executor, status, retryCount) ==
    IF status = 429
      THEN (IF retryCount < MAX_RETRIES THEN "retry429" ELSE "throwRateLimit")
    ELSE IF status \in (TransientStatuses(executor) \cup {404}) /\ retryCount < MAX_RETRIES
      THEN "retryTransient"
    ELSE "throwTerminal"

\* what the catch block does with a failure: "retry429", "retryTransient",
\* "throwRateLimit" or "throwTerminal"
OnFailure(executor, status, retryCount) ==
    IF status = 429
      THEN (IF retryCount < MAX_RETRIES THEN "retry429" ELSE "throwRateLimit")
    ELSE IF status \in TransientStatuses(executor) /\ retryCount < MAX_RETRIES
      THEN "retryTransient"
    ELSE "throwTerminal"

RetryInit ==
    /\ pc = "start"
    /\ msgKind = "string"
    /\ googleAccessToken = NULL
    /\ microsoftAccessToken = NULL
    /\ classification = NoClassification
    /\ providers = <<>>
    /\ mcpTools = {}
    /\ decision = NoDecision
    /\ currentDecision = NoDecision
    /\ executedSteps = 0
    /\ res = <<>>
    /\ escaped = FALSE
    /\ lastCall = NoCall
    /\ nCallTool = 0
    /\ nPlanner = 0
    /\ nGetTools = 0
    /\ toolFailed = FALSE
    /\ formatFailed = FALSE
    /\ cx = CxIdle
    /\ gx = GxIdle
    /\ kx = KxIdle
    /\ hx = HxIdle
    /\ sx = SxIdle
    /\ mx = MxIdle
    /\ ux = UxIdle
    /\ \E ex \in Executors, tok \in BOOLEAN :
       \E filled \in SUBSET CacheKeys(ex) :
         rx = [pc |-> "enter", executor |-> ex, hasToken |-> tok,
               cache |-> filled, cacheAtEntry |-> filled,
               retryCount |-> 0, attempts |-> 0,
               nWaits |-> 0, delay |-> 0, prevDelay |-> 0, only429 |-> TRUE,
               usedHeader |-> FALSE, lastStatus |-> 0, lastHeader |-> NoHeader,
               result |-> "none",
               message |-> ""]

\* entry of the wrapper: executeGraphAPICall refuses a missing access token
RetryEnter ==
    /\ rx.pc = "enter"
    /\ IF rx.executor = "teams" /\ ~rx.hasToken
         THEN rx' = [rx EXCEPT !.pc = "done", !.result = "throw",
                               !.message = "Access token is required. Please sign in with Microsoft."]
         ELSE rx' = [rx EXCEPT !.pc = "call"]
    /\ UNCHANGED <<chatVars, cx, gx, kx, hx, sx, mx, ux>>

\* one attempt of the provider call and the catch block's reaction
RetryAttempt ==
    /\ rx.pc = "call"
    /\ \/ rx' = [rx EXCEPT !.pc = "done", !.attempts = @ + 1, !.result = "ok",
                           !.only429 = FALSE]
       \/ \E status \in Statuses, header \in RetryAfterHeaders :
            LET o == OnFailure(rx.executor, status, rx.retryCount)
                fail == [rx EXCEPT !.attempts = @ + 1, !.lastStatus = status,
                                   !.lastHeader = header,
                                   !.only429 = (@ /\ status = 429)]
                wait == IF o = "retry429"
                          THEN RateLimitDelay(rx.executor, rx.retryCount, header)
                          ELSE TransientDelay(rx.retryCount)
            IN
            /\ (status # 429 \/ rx.executor # "teams") => header = NoHeader
            /\ rx' =
                 CASE o \in {"retry429", "retryTransient"} ->
                        [fail EXCEPT !.pc = "delay", !.nWaits = @ + 1,
                                     !.prevDelay = rx.delay,
                                     !.delay = TimerDelay(wait),
                                     !.usedHeader = (@ \/ (o = "retry429" /\ header # NoHeader))]
                   [] o = "throwRateLimit" ->
                        [fail EXCEPT !.pc = "done", !.result = "throw",
                                     !.message = RateLimitMessage(rx.executor)]
                   [] OTHER ->
                        [fail EXCEPT !.pc = "done", !.result = "throw",
                                     !.message = TerminalMessage(rx.executor, status),
                                     !.cache = CacheAfterThrow(@, status)]
    /\ UNCHANGED <<chatVars, cx, gx, kx, hx, sx, mx, ux>>

\* the delay is over: the wrapper calls itself with retryCount + 1
RetryWake ==
    /\ rx.pc = "delay"
    /\ rx' = [rx EXCEPT !.pc = "call", !.retryCount = @ + 1]
    /\ UNCHANGED <<chatVars, cx, gx, kx, hx, sx, mx, ux>>

RetryNext ==
    \/ RetryEnter
    \/ RetryAttempt
    \/ RetryWake

RetrySpec == RetryInit /\ [][RetryNext]_vars

\* every provider call settles and every timer of delay(ms) fires
RetryFairSpec == RetrySpec /\ WF_vars(RetryNext)

\* the variables of the request handler before any request
ChatIdle ==
    /\ pc = "start"
    /\ msgKind = "string"
    /\ googleAccessToken = NULL
    /\ microsoftAccessToken = NULL
    /\ classification = NoClassification
    /\ providers = <<>>
    /\ mcpTools = {}
    /\ decision = NoDecision
    /\ currentDecision = NoDecision
    /\ executedSteps = 0
    /\ res = <<>>
    /\ escaped = FALSE
    /\ lastCall = NoCall
    /\ nCallTool = 0
    /\ nPlanner = 0
    /\ nGetTools = 0
    /\ toolFailed = FALSE
    /\ formatFailed = FALSE

(***************************************************************************)
(* Properties of the retry wrappers.                                       *)
(***************************************************************************)
\* the invocation ended by throwing and every attempt had failed with 429
KeptFailing429 == rx.pc = "done" /\ rx.result = "throw" /\ rx.only429 /\ rx.attempts > 0

C11_TerminalNotRetried ==
    (rx.pc # "off" /\ rx.attempts > 0 /\ rx.lastStatus \in NonRetriedStatuses)
    => /\ rx.pc = "done"
       /\ rx.result = "throw"
       /\ rx.attempts = rx.retryCount + 1
       /\ rx.nWaits = rx.retryCount
       /\ rx.message = TerminalMessage(rx.executor, rx.lastStatus)
       /\ rx.message \notin {TerminalMessage(rx.executor, 0), RateLimitMessage(rx.executor)}
       /\ rx.lastStatus = 401 => rx.cache = {}
       /\ rx.lastStatus # 401 => rx.cache = rx.cacheAtEntry

\* a 401 after two retried failures, with every Teams cache field filled before
C11_Witness ==
    /\ rx.pc = "done"
    /\ rx.executor = "teams"
    /\ rx.lastStatus = 401
    /\ rx.retryCount = 2
    /\ rx.attempts = 3
    /\ rx.cacheAtEntry = CacheKeys("teams")
    /\ rx.cache = {}

\* the invocation ended by throwing for the failure seen last
ThrewFor(statuses) ==
    rx.pc = "done" /\ rx.result = "throw" /\ rx.attempts > 0 /\ rx.lastStatus \in statuses

\* C12 as stated: every executor retries each of 429, 503, 500 and 504 (it gives up
\* on them only after MAX_RETRIES retries), waiting 5000 * 2^retryCount ms after a
\* 429 and 1000 * 2^retryCount ms after the others.
C12_RetriesAllTransient ==
    /\ ThrewFor({429, 503, 500, 504}) => rx.retryCount = MAX_RETRIES
    /\ rx.pc = "delay"
         => /\ rx.lastStatus \in {429, 503, 500, 504}
            /\ rx.delay = (IF rx.lastStatus = 429 THEN RATE_LIMIT_DELAY_MS
                           ELSE RETRY_DELAY_MS) * Pow2(rx.retryCount)

\* C12 amended: the Gmail executor retries 429, 503 and 500, the Teams executor
\* 429, 503 and 504; the wait is 1000 * 2^retryCount ms after 503/500/504 and
\* 5000 * 2^retryCount ms after 429, except that a Teams 429 carrying a retry-after
\* header is waited for that many seconds.  A Gmail 504 and a Teams 500 are not
\* retried: the generic API error is thrown at once.
C12_RetriesOwnTransient ==
    /\ ThrewFor({429} \cup TransientStatuses(rx.executor)) => rx.retryCount = MAX_RETRIES
    /\ ThrewFor({500, 504} \ TransientStatuses(rx.executor))
         => /\ rx.attempts = rx.retryCount + 1
            /\ rx.nWaits = rx.retryCount
            /\ rx.message = TerminalMessage(rx.executor, 0)
    /\ rx.pc = "delay"
         => /\ rx.lastStatus \in {429} \cup TransientStatuses(rx.executor)
            /\ rx.retryCount < MAX_RETRIES
            /\ rx.nWaits = rx.retryCount + 1
            /\ rx.lastStatus # 429 => rx.delay = RETRY_DELAY_MS * Pow2(rx.retryCount)
            /\ (rx.lastStatus = 429 /\ rx.lastHeader = NoHeader)
                 => rx.delay = RATE_LIMIT_DELAY_MS * Pow2(rx.retryCount)
            /\ (rx.lastStatus = 429 /\ rx.lastHeader \in 0 .. MaxRetryAfter)
                 => rx.executor = "teams" /\ rx.delay = rx.lastHeader * 1000

\* the fourth retry of a Gmail call after a 500: an 8 s wait
C12_Witness ==
    /\ rx.pc = "delay"
    /\ rx.executor = "gmail"
    /\ rx.lastStatus = 500
    /\ rx.retryCount = 3
    /\ rx.delay = 8000

\* C28: one invocation of executeWithRetry (Gmail) or executeGraphAPICall
\* (Teams) always terminates and attempts the provider call at most
\* MAX_RETRIES + 1 = 11 times in total, for any sequence of outcomes mixing 429
\* and retried 5xx statuses in any order: the two retry kinds share one counter.
C28_BoundedAttempts ==
    /\ [](rx.pc # "off" => /\ rx.attempts <= MAX_RETRIES + 1
                           /\ rx.attempts <= rx.retryCount + 1)
    /\ <>(rx.pc = "done")

\* the eleventh attempt ended with a 429 after retried 5xx failures among the
\* first ten: the wrapper has given up
C28_Witness ==
    /\ rx.pc = "done"
    /\ rx.result = "throw"
    /\ rx.attempts = 11
    /\ rx.lastStatus = 429
    /\ ~rx.only429

(***************************************************************************)
(* classifyQueryWithAI (chatController.js).  A message is the sequence of  *)
(* its characters.                                                         *)
(***************************************************************************)
\* largest number of fragments a message of the model is made of
MaxFragments == 2

UpperCase == <<"A", "B", "C", "D", "E", "F", "G", "H", "I", "J", "K", "L", "M", "N", "O", "P",
               "Q", "R", "S", "T", "U", "V", "W", "X", "Y", "Z">>

LowerCase == <<"a", "b", "c", "d", "e", "f", "g", "h", "i", "j", "k", "l", "m", "n", "o", "p",
               "q", "r", "s", "t", "u", "v", "w", "x", "y", "z">>

\* String.prototype.toLowerCase
toLowerCase(str) ==
    [i \in 1 .. Len(str) |->
        IF \E j \in 1 .. Len(UpperCase) : UpperCase[j] = str[i]
          THEN LowerCase[CHOOSE j \in 1 .. Len(UpperCase) : UpperCase[j] = str[i]]
          ELSE str[i]]

\* String.prototype.includes
includes(str, k) ==
    \E i \in 1 .. (Len(str) - Len(k) + 1) : SubSeq(str, i, i + Len(k) - 1) = k

\* ['email', 'mail', 'gmail', 'inbox', 'send to']
EmailKeywords == <<<<"e", "m", "a", "i", "l">>,
                   <<"m", "a", "i", "l">>,
                   <<"g", "m", "a", "i", "l">>,
                   <<"i", "n", "b", "o", "x">>,
                   <<"s", "e", "n", "d", " ", "t", "o">>>>

\* ['teams', 'team', 'chat', 'channel', 'meeting', 'calendar']
TeamsKeywords == <<<<"t", "e", "a", "m", "s">>,
                   <<"t", "e", "a", "m">>,
                   <<"c", "h", "a", "t">>,
                   <<"c", "h", "a", "n", "n", "e", "l">>,
                   <<"m", "e", "e", "t", "i", "n", "g">>,
                   <<"c", "a", "l", "e", "n", "d", "a", "r">>>>

\* mutant: the keyword 'send to' is not looked for
hasEmailKeywords_NoSendTo(lowerMessage) ==
    \E n \in 1 .. (Len(EmailKeywords) - 1) : includes(lowerMessage, EmailKeywords[n])

\* [...].some(k => lowerMessage.includes(k))
hasEmailKeywords(lowerMessage) ==
    \E n \in 1 .. Len(EmailKeywords) : includes(lowerMessage, EmailKeywords[n])

hasTeamsKeywords(lowerMessage) ==
    \E n \in 1 .. Len(TeamsKeywords) : includes(lowerMessage, TeamsKeywords[n])

\* mutant: the fallback throws when no keyword of either domain is found
keywordFallback_ThrowsOnNoMatch(isString, message) ==
    IF ~isString \/ (~hasEmailKeywords(toLowerCase(message))
                      /\ ~hasTeamsKeywords(toLowerCase(message)))
      THEN [threw |-> TRUE, isEmail |-> FALSE, isTeams |-> FALSE,
            confidence |-> "none", path |-> "fallback"]
      ELSE [threw |-> FALSE,
            isEmail |-> hasEmailKeywords(toLowerCase(message)),
            isTeams |-> hasTeamsKeywords(toLowerCase(message)),
            confidence |-> "low", path |-> "fallback"]

\* the catch block of classifyQueryWithAI; a message that is no string has no
\* toLowerCase, and the TypeError leaves the function
keywordFallback(isString, message) ==
    IF ~isString
      THEN [threw |-> TRUE, isEmail |-> FALSE, isTeams |-> FALSE,
            confidence |-> "none", path |-> "fallback"]
      ELSE [threw |-> FALSE,
            isEmail |-> hasEmailKeywords(toLowerCase(message)),
            isTeams |-> hasTeamsKeywords(toLowerCase(message)),
            confidence |-> "low", path |-> "fallback"]

\* what the classification model call gives: an exception, text that is not JSON,
\* the JSON value null, or an object (confidence possibly absent)
LLMFailures == {"throws", "notJSON", "jsonNull"}

LLMOutcomes ==
    { [kind |-> k, isEmail |-> FALSE, isTeams |-> FALSE, confidence |-> "absent"] :
        k \in LLMFailures }
    \cup { [kind |-> "json", isEmail |-> e, isTeams |-> t, confidence |-> "high"] :
              e \in BOOLEAN, t \in BOOLEAN }
    \cup { [kind |-> "json", isEmail |-> FALSE, isTeams |-> FALSE,
            confidence |-> "absent"] }

\* conversationHistory: [], an array of messages, or a value whose
\* slice(-5).map(...) throws (no array, or a null element)
Histories == {"empty", "messages", "malformed"}

classifyQueryWithAI(isString, message, history, out) ==
    IF history # "malformed" /\ out.kind = "json"
      THEN [threw |-> FALSE, isEmail |-> out.isEmail, isTeams |-> out.isTeams,
            confidence |-> IF out.confidence = "absent" THEN "low" ELSE out.confidence,
            path |-> "ai"]
      ELSE keywordFallback(isString, message)

\* pieces of text the messages of the model are concatenated from
Fragments ==
    { <<"E", "m", "a", "i", "l">>,
      <<"M", "A", "I", "L">>,
      <<"g", "m", "a", "i", "l">>,
      <<"I", "n", "b", "o", "x">>,
      <<"s", "e", "n", "d", " ", "t", "o">>,
      <<"s", "e", "n", "d">>,
      <<"s", "t", "e", "a", "m">>,
      <<"T", "E", "A", "M", "S">>,
      <<"C", "h", "a", "t">>,
      <<"c", "h", "a", "n", "n", "e", "l">>,
      <<"M", "e", "e", "t", "i", "n", "g">>,
      <<"c", "a", "l", "e", "n", "d", "a", "r">>,
      <<"h", "e", "l", "l", "o">>,
      <<" ">> }

RECURSIVE Concatenations(_)
\* the texts made of exactly n fragments
Concatenations(n) ==
    IF n = 0 THEN {<<>>}
    ELSE {f \o m : f \in Fragments, m \in Concatenations(n - 1)}

Messages == UNION {Concatenations(n) : n \in 1 .. MaxFragments}

\* req.body.message is truthy: a non-empty string, or a value that is no string
ClassifyInit ==
    /\ ChatIdle
    /\ rx = RxIdle
    /\ gx = GxIdle
    /\ kx = KxIdle
    /\ hx = HxIdle
    /\ sx = SxIdle
    /\ mx = MxIdle
    /\ ux = UxIdle
    /\ \E h \in Histories :
         \/ \E m \in Messages :
              cx = [pc |-> "call", isString |-> TRUE, message |-> m, history |-> h,
                    llm |-> <<>>, results |-> <<>>]
         \/ cx = [pc |-> "call", isString |-> FALSE, message |-> <<>>, history |-> h,
                  llm |-> <<>>, results |-> <<>>]

\* one call classifyQueryWithAI(message, conversationHistory)
Classify ==
    /\ cx.pc = "call"
    /\ \E out \in LLMOutcomes :
         cx' = [cx EXCEPT
                  !.llm = Append(@, out.kind),
                  !.results = Append(@, classifyQueryWithAI(cx.isString, cx.message,
                                                            cx.history, out)),
                  !.pc = IF Len(cx.results) = 1 THEN "done" ELSE "call"]
    /\ UNCHANGED <<chatVars, rx, gx, kx, hx, sx, mx, ux>>

ClassifyNext == Classify

ClassifySpec == ClassifyInit /\ [][ClassifyNext]_vars

(***************************************************************************)
(* Properties of the classifier.                                           *)
(***************************************************************************)
\* the n-th call was answered by the keyword fallback
FellBack(n) == n \in 1 .. Len(cx.results) /\ cx.results[n].path = "fallback"

\* C14: for every non-empty string message, when the classifier's model call
\* throws, replies with text that is not JSON or replies with null,
\* classifyQueryWithAI does not throw and returns boolean isEmail / isTeams flags
\* computed by keyword matching, with confidence 'low'.
C14_FallbackNeverThrows ==
    cx.pc # "off" =>
    \A n \in 1 .. Len(cx.results) :
        (cx.isString /\ cx.message # <<>> /\ cx.llm[n] \in LLMFailures)
        => /\ FellBack(n)
           /\ ~cx.results[n].threw
           /\ cx.results[n].isEmail \in BOOLEAN
           /\ cx.results[n].isTeams \in BOOLEAN
           /\ cx.results[n].isEmail = hasEmailKeywords(toLowerCase(cx.message))
           /\ cx.results[n].isTeams = hasTeamsKeywords(toLowerCase(cx.message))
           /\ cx.results[n].confidence = "low"

\* the model replied with null for a message without any keyword
C14_Witness ==
    /\ cx.pc # "off"
    /\ Len(cx.results) >= 1
    /\ cx.isString
    /\ cx.message = <<"h", "e", "l", "l", "o", " ">>
    /\ cx.llm[1] = "jsonNull"
    /\ ~cx.results[1].threw
    /\ ~cx.results[1].isEmail
    /\ ~cx.results[1].isTeams
    /\ cx.results[1].confidence = "low"

\* the keyword lists as the claim gives them
C15_EmailWords == {<<"e", "m", "a", "i", "l">>,
                   <<"m", "a", "i", "l">>,
                   <<"g", "m", "a", "i", "l">>,
                   <<"i", "n", "b", "o", "x">>,
                   <<"s", "e", "n", "d", " ", "t", "o">>}

C15_TeamsWords == {<<"t", "e", "a", "m", "s">>,
                   <<"t", "e", "a", "m">>,
                   <<"c", "h", "a", "t">>,
                   <<"c", "h", "a", "n", "n", "e", "l">>,
                   <<"m", "e", "e", "t", "i", "n", "g">>,
                   <<"c", "a", "l", "e", "n", "d", "a", "r">>}

\* C15: under the fallback path, classifying the same message and history twice
\* gives the same isEmail and isTeams flags; isEmail holds iff the lower-cased
\* message contains one of 'email', 'mail', 'gmail', 'inbox', 'send to', isTeams
\* iff it contains one of 'teams', 'team', 'chat', 'channel', 'meeting', 'calendar'.
C15_FallbackDeterministic ==
    /\ (cx.pc # "off" /\ cx.isString /\ FellBack(1) /\ FellBack(2))
         => /\ cx.results[1].isEmail = cx.results[2].isEmail
            /\ cx.results[1].isTeams = cx.results[2].isTeams
    /\ (cx.pc # "off" /\ cx.isString)
         => \A n \in 1 .. Len(cx.results) :
              FellBack(n)
              => /\ cx.results[n].isEmail
                      = (\E k \in C15_EmailWords : includes(toLowerCase(cx.message), k))
                 /\ cx.results[n].isTeams
                      = (\E k \in C15_TeamsWords : includes(toLowerCase(cx.message), k))

\* 'MAIL' + 'steam' classified twice by the fallback: both flags set both times
C15_Witness ==
    /\ cx.pc = "done"
    /\ cx.isString
    /\ cx.message = <<"M", "A", "I", "L", "s", "t", "e", "a", "m">>
    /\ FellBack(1)
    /\ FellBack(2)
    /\ cx.llm[1] # cx.llm[2]
    /\ cx.results[1].isEmail /\ cx.results[2].isEmail
    /\ cx.results[1].isTeams /\ cx.results[2].isTeams

(***************************************************************************)
(* MCPClientManager.getAvailableTools.                                     *)
(***************************************************************************)
\* longest providers array of the model
MaxProviders == 3

\* provider names a caller may pass; 'slack' has no client
ProviderNames == {"gmail", "teams", "slack"}

RECURSIVE ProviderLists(_)
\* the arrays of exactly n provider names
ProviderLists(n) ==
    IF n = 0 THEN {<<>>}
    ELSE {<<p>> \o l : p \in ProviderNames, l \in ProviderLists(n - 1)}

\* response.tools of a server, in the order its ListTools handler declares them
ToolList(p) ==
    IF p = "gmail" THEN <<"gmail_list_messages", "gmail_send_message">>
    ELSE <<"teams_find_chat_by_name", "teams_send_message",
           "teams_post_channel_message">>

RECURSIVE Iterate(_)
\* the head of `for (const provider of providers)`: return after the last
\* provider, `continue` for a name without client, else connect (a client
\* connected before is returned at once) and list
Iterate(g) ==
    IF g.i > Len(g.providers) THEN [g EXCEPT !.pc = "done"]
    ELSE IF g.providers[g.i] \notin {"gmail", "teams"}
      THEN Iterate([g EXCEPT !.i = @ + 1, !.listed = Append(@, FALSE)])
    ELSE IF g.providers[g.i] \in g.clients THEN [g EXCEPT !.pc = "list"]
    ELSE [g EXCEPT !.pc = "connect"]

\* mutant: the error of one provider is thrown on
CatchProviderError_Rethrow(g) == [g EXCEPT !.pc = "done", !.threw = TRUE]

\* catch (error) { console.error(...) } and on to the next provider
CatchProviderError(g) == Iterate([g EXCEPT !.i = @ + 1, !.listed = Append(@, FALSE)])

\* tools.push(...response.tools)
PushTools(tools, p) == tools \o ToolList(p)

\* getAvailableTools(providers) is called; clients connected by earlier calls stay
ToolsInit ==
    /\ ChatIdle
    /\ rx = RxIdle
    /\ cx = CxIdle
    /\ kx = KxIdle
    /\ hx = HxIdle
    /\ sx = SxIdle
    /\ mx = MxIdle
    /\ ux = UxIdle
    /\ \E n \in 0 .. MaxProviders :
       \E l \in ProviderLists(n), c \in SUBSET {"gmail", "teams"} :
         gx = [pc |-> "enter", providers |-> l, i |-> 1, tools |-> <<>>,
               clients |-> c, listed |-> <<>>, threw |-> FALSE]

\* const tools = []; the loop starts
GetToolsEnter ==
    /\ gx.pc = "enter"
    /\ gx' = Iterate(gx)
    /\ UNCHANGED <<chatVars, rx, cx, kx, hx, sx, mx, ux>>

\* await this.connectGmail() / this.connectTeams() returns the new client or throws
ConnectReturns ==
    /\ gx.pc = "connect"
    /\ \/ gx' = [gx EXCEPT !.pc = "list", !.clients = @ \cup {gx.providers[gx.i]}]
       \/ gx' = CatchProviderError(gx)
    /\ UNCHANGED <<chatVars, rx, cx, kx, hx, sx, mx, ux>>

\* await client.listTools() returns the declarations, returns a response without
\* tools (reading response.tools.length throws) or throws
ListReturns ==
    /\ gx.pc = "list"
    /\ \/ gx' = Iterate([gx EXCEPT !.tools = PushTools(@, gx.providers[gx.i]),
                                   !.i = @ + 1, !.listed = Append(@, TRUE)])
       \/ gx' = CatchProviderError(gx)
    /\ UNCHANGED <<chatVars, rx, cx, kx, hx, sx, mx, ux>>

ToolsNext ==
    \/ GetToolsEnter
    \/ ConnectReturns
    \/ ListReturns

ToolsSpec == ToolsInit /\ [][ToolsNext]_vars

(***************************************************************************)
(* Properties of getAvailableTools.                                        *)
(***************************************************************************)
RECURSIVE ListedTools(_, _, _)
\* the declarations of the first n requested providers whose listing succeeded,
\* in request order
ListedTools(l, listed, n) ==
    IF n = 0 THEN <<>>
    ELSE ListedTools(l, listed, n - 1)
         \o (IF listed[n] THEN ToolList(l[n]) ELSE <<>>)

\* C16: getAvailableTools never throws; a provider whose connection or listing
\* fails is skipped, an unknown provider name contributes nothing, and the value
\* returned is the declarations of the providers that succeeded, in request order.
C16_PartialToolList ==
    gx.pc # "off"
    => /\ ~gx.threw
       /\ Len(gx.listed) = gx.i - 1
       /\ gx.tools = ListedTools(gx.providers, gx.listed, gx.i - 1)
       /\ \A n \in 1 .. Len(gx.listed) :
            gx.listed[n] => gx.providers[n] \in gx.clients
       /\ gx.pc = "done" => gx.i = Len(gx.providers) + 1

\* gmail fails, slack is unknown, teams is listed
C16_Witness ==
    /\ gx.pc = "done"
    /\ gx.providers = <<"gmail", "slack", "teams">>
    /\ gx.listed = <<FALSE, FALSE, TRUE>>
    /\ gx.tools = ToolList("teams")
    /\ ~gx.threw

(***************************************************************************)
(* The executors' caches.  A server runs its tool handlers interleaved:    *)
(* each handler is suspended while its provider call (made through the     *)
(* retry wrapper) is under way, and resumes with the result or the Error.  *)
(***************************************************************************)
\* number of tool calls the server receives in a behaviour of the model
MaxCalls == 3

\* number of label mutations the provider applies in a behaviour of the model
MaxMutations == 1

\* the handler invocations that can be under way at the same time
Slots == {"a", "b"}

\* a cache field holding null
NoValue == -1

\* this.CACHE_TTL
CACHE_TTL(executor) == IF executor = "gmail" THEN 300000 ELSE 60000

\* the values of Date.now() the model looks at: the start, 1 ms later, and the
\* last ms before and the first ms at one TTL after the start
Instants(executor) == {0, 1, CACHE_TTL(executor) - 1, CACHE_TTL(executor)}

\* this.cache as the constructor and clearCache() build it
EmptyCache(executor) ==
    [k \in CacheKeys(executor) |-> [value |-> NoValue, expiry |-> 0]]

LabelMutations == {"gmail_create_label", "gmail_update_label", "gmail_delete_label"}

\* the Teams tools that fetch the chat list
ChatListTools == {"teams_list_chats", "teams_find_chat_by_name", "teams_send_message"}

CacheTools(executor) ==
    IF executor = "gmail"
      THEN {"gmail_list_labels", "gmail_get_profile", "gmail_get_or_create_label"}
           \cup LabelMutations
      ELSE ChatListTools

\* the cache field a handler reads before calling the provider
CacheKeyOf(tool) ==
    IF tool = "gmail_list_labels" THEN "labels"
    ELSE IF tool = "gmail_get_profile" THEN "profile"
    ELSE "none"

\* mutant: an entry is still served at its expiry time
CacheHit_AtExpiry(cache, key, now) ==
    cache[key].value # NoValue /\ cache[key].expiry >= now

\* this.cache.labels && this.cache.labelsExpiry > now
CacheHit(cache, key, now) ==
    cache[key].value # NoValue /\ cache[key].expiry > now

\* this.cache.labels = result; this.cache.labelsExpiry = now + this.CACHE_TTL:
\* two assignments with no await between them
StoreEntry(value, now, executor) ==
    [value |-> value, expiry |-> now + CACHE_TTL(executor)]

\* mutant: the invalidation after a label mutation resets the expiry only
InvalidateLabels_ExpiryOnly(cache) == [cache EXCEPT !["labels"].expiry = 0]

\* this.cache.labels = null (labelsExpiry keeps its value)
InvalidateLabels(cache) == [cache EXCEPT !["labels"].value = NoValue]

\* the handlers that make a second provider call after the first succeeded
TwoCallTools == {"gmail_get_or_create_label", "teams_send_message"}

\* response.data of a provider call: the label list as it is now (its version),
\* the profile, or nothing that is cached
Fetched(tool, out, version) ==
    IF out = "ok" /\ tool = "gmail_list_labels" THEN version
    ELSE IF out = "ok" /\ tool = "gmail_get_profile" THEN 0
    ELSE NoValue

IdleCall == [tool |-> "none", pc |-> "idle", now |-> 0, phase |-> 0,
             outcome |-> "none", got |-> NoValue, token |-> NULL, made |-> NoValue]

\* the invocation a new request gets: the first that is not under way
FreeSlot(calls) == IF calls["a"].pc = "idle" THEN "a" ELSE "b"

NoEvent == [kind |-> "none", slot |-> "a", tool |-> "none", key |-> "none", at |-> 0,
            token |-> NULL, refused |-> FALSE, owner |-> NULL,
            hit |-> FALSE, value |-> NoValue,
            before |-> [value |-> NoValue, expiry |-> 0]]

\* a second Google session's access token
OtherGoogleToken == "google-token-2"

\* the credential of the one session whose calls reach the server
OwnToken(executor) == IF executor = "gmail" THEN GoogleToken ELSE MicrosoftToken

\* a server after construction: callers are the credentials (_auth.accessToken)
\* its calls arrive with, tools the tools they name
NewServer(ex, callers, tools) ==
    [pc |-> "on", executor |-> ex, now |-> 0, nCalls |-> 0,
     version |-> 0, completed |-> 0,
     callers |-> callers, tools |-> tools,
     cache |-> EmptyCache(ex), calls |-> [s \in Slots |-> IdleCall],
     fetchedAt |-> [k \in CacheKeys(ex) |-> NoValue],
     fetchedWith |-> [k \in CacheKeys(ex) |-> NULL],
     written |-> EmptyCache(ex),
     invalidated |-> FALSE, afterInvalidation |-> "none",
     event |-> NoEvent]

\* a server after construction, used by one session
CacheInit ==
    /\ ChatIdle
    /\ rx = RxIdle
    /\ cx = CxIdle
    /\ gx = GxIdle
    /\ hx = HxIdle
    /\ sx = SxIdle
    /\ mx = MxIdle
    /\ ux = UxIdle
    /\ \E ex \in Executors : kx = NewServer(ex, {OwnToken(ex)}, CacheTools(ex))

\* the CallTool handler enters a tool function: const now = Date.now(); the
\* cached reads return at once on a hit; every other path builds the provider
\* client, which throws without an access token, and awaits the provider
ToolCalled ==
    /\ kx.pc = "on"
    /\ \E s \in Slots, tool \in kx.tools, token \in kx.callers :
         LET key == CacheKeyOf(tool)
             hit == key # "none" /\ CacheHit(kx.cache, key, kx.now)
             refused == ~hit /\ token = NULL
         IN
         /\ s = FreeSlot(kx.calls)
         /\ kx.calls[s].pc = "idle"
         /\ kx.nCalls < MaxCalls
         /\ kx' = [kx EXCEPT
                !.nCalls = @ + 1,
                !.calls[s] = IF hit \/ refused THEN IdleCall
                             ELSE [tool |-> tool, pc |-> "await", now |-> kx.now,
                                   phase |-> 1, outcome |-> "none", got |-> NoValue,
                                   token |-> token, made |-> NoValue],
                !.event = [kind |-> "call", slot |-> s, tool |-> tool, key |-> key,
                           at |-> kx.now, hit |-> hit,
                           token |-> token, refused |-> refused,
                           owner |-> IF hit THEN kx.fetchedWith[key] ELSE NULL,
                           value |-> IF hit THEN kx.cache[key].value ELSE NoValue,
                           before |-> IF key # "none" THEN kx.cache[key]
                                      ELSE NoEvent.before],
                !.invalidated = IF tool = "gmail_list_labels" THEN FALSE ELSE @,
                !.afterInvalidation =
                     IF tool # "gmail_list_labels" THEN @
                     ELSE IF ~kx.invalidated THEN "none"
                     ELSE IF hit THEN "cached" ELSE "fetched"]
    /\ UNCHANGED <<chatVars, rx, cx, gx, hx, sx, mx, ux>>

\* the provider call of a suspended handler is settled: the provider answers
\* (reading or changing its label list) or the retry wrapper gives up
ProviderResponds ==
    /\ kx.pc = "on"
    /\ \E s \in Slots, out \in {"ok", "found", "401", "error"} :
         LET c == kx.calls[s]
             mutates == c.tool \in LabelMutations
                        \/ (c.tool = "gmail_get_or_create_label" /\ c.phase = 2)
         IN
         /\ c.pc = "await"
         /\ out = "found" => (c.tool = "gmail_get_or_create_label" /\ c.phase = 1)
         /\ (out = "ok" /\ mutates) => kx.version < MaxMutations
         /\ kx' = [kx EXCEPT
                !.calls[s] = [c EXCEPT !.pc = "resume", !.outcome = out,
                                       !.got = Fetched(c.tool, out, kx.version),
                                       !.made = IF out = "ok" /\ mutates
                                                  THEN kx.version + 1 ELSE NoValue],
                !.version = IF out = "ok" /\ mutates THEN @ + 1 ELSE @,
                !.event = NoEvent]
    /\ UNCHANGED <<chatVars, rx, cx, gx, hx, sx, mx, ux>>

\* the handler runs on after its await: store the fetched value, null the label
\* entry after a mutation, clearCache() on 401, or make the second provider call
HandlerResumes ==
    /\ kx.pc = "on"
    /\ \E s \in Slots :
         LET c == kx.calls[s]
             key == CacheKeyOf(c.tool)
             stores == c.outcome = "ok" /\ key # "none"
             nulls == c.outcome = "ok"
                      /\ (c.tool \in LabelMutations
                          \/ (c.tool = "gmail_get_or_create_label" /\ c.phase = 2))
             again == c.outcome = "ok" /\ c.tool \in TwoCallTools /\ c.phase = 1
             gotChats == c.outcome = "ok" /\ c.tool \in ChatListTools /\ c.phase = 1
         IN
         /\ c.pc = "resume"
         /\ kx' = [kx EXCEPT
                !.calls[s] = IF again THEN [c EXCEPT !.pc = "await", !.phase = 2,
                                                     !.outcome = "none"]
                             ELSE IdleCall,
                !.cache = IF c.outcome = "401" THEN EmptyCache(kx.executor)
                          ELSE IF stores
                            THEN [@ EXCEPT ![key] =
                                     StoreEntry(c.got, c.now, kx.executor)]
                          ELSE IF nulls THEN InvalidateLabels(@)
                          ELSE @,
                !.written = IF c.outcome = "401" THEN EmptyCache(kx.executor)
                            ELSE IF stores
                              THEN [@ EXCEPT ![key] =
                                       [value |-> c.got,
                                        expiry |-> c.now + CACHE_TTL(kx.executor)]]
                            ELSE IF nulls
                              THEN [@ EXCEPT !["labels"] = EmptyCache(kx.executor)["labels"]]
                            ELSE @,
                !.fetchedAt = IF c.outcome = "401"
                                THEN [k \in CacheKeys(kx.executor) |-> NoValue]
                              ELSE IF stores THEN [@ EXCEPT ![key] = kx.now]
                              ELSE IF nulls THEN [@ EXCEPT !["labels"] = NoValue]
                              ELSE IF gotChats THEN [@ EXCEPT !["chats"] = kx.now]
                              ELSE @,
                !.fetchedWith = IF c.outcome = "401"
                                  THEN [k \in CacheKeys(kx.executor) |-> NULL]
                                ELSE IF stores THEN [@ EXCEPT ![key] = c.token]
                                ELSE IF nulls THEN [@ EXCEPT !["labels"] = NULL]
                                ELSE @,
                !.completed = IF nulls /\ c.made > @ THEN c.made ELSE @,
                !.invalidated = IF kx.executor = "gmail" /\ (c.outcome = "401" \/ nulls)
                                  THEN TRUE ELSE @,
                !.event = IF stores
                            THEN [NoEvent EXCEPT !.kind = "stored", !.slot = s,
                                                 !.tool = c.tool, !.key = key,
                                                 !.at = c.now, !.value = c.got]
                            ELSE NoEvent]
    /\ UNCHANGED <<chatVars, rx, cx, gx, hx, sx, mx, ux>>

\* time passes: Date.now() moves on to a later instant
Tick ==
    /\ kx.pc = "on"
    /\ \E t \in Instants(kx.executor) :
         /\ t > kx.now
         /\ kx' = [kx EXCEPT !.now = t, !.event = NoEvent]
    /\ UNCHANGED <<chatVars, rx, cx, gx, hx, sx, mx, ux>>

CacheNext ==
    \/ ToolCalled
    \/ ProviderResponds
    \/ HandlerResumes
    \/ Tick

CacheSpec == CacheInit /\ [][CacheNext]_vars

\* the Gmail server as the gateway runs it: one subprocess for all requests,
\* called with the credential of whichever session a request belongs to, or
\* with none
SharedServerInit ==
    /\ ChatIdle
    /\ rx = RxIdle
    /\ cx = CxIdle
    /\ gx = GxIdle
    /\ hx = HxIdle
    /\ sx = SxIdle
    /\ mx = MxIdle
    /\ ux = UxIdle
    /\ kx = NewServer("gmail", {NULL, GoogleToken, OtherGoogleToken},
                      {"gmail_list_labels", "gmail_get_profile", "gmail_delete_label"})

SharedServerSpec == SharedServerInit /\ [][CacheNext]_vars

(***************************************************************************)
(* Properties of the caches.                                               *)
(***************************************************************************)
\* a cached read of the Gmail server has just been entered
CachedReadEntered ==
    kx.pc = "on" /\ kx.executor = "gmail" /\ kx.event.kind = "call"
    /\ kx.event.key # "none"

\* C18: in the Gmail executor, after a successful gmail_create_label,
\* gmail_update_label, gmail_delete_label or creating gmail_get_or_create_label,
\* and after a provider 401, the next gmail_list_labels call is not answered from
\* the cache (here: not with a label list older than the provider's).
C18_NextListFetches ==
    (kx.pc = "on" /\ kx.event.kind = "call" /\ kx.event.tool = "gmail_list_labels"
        /\ kx.afterInvalidation = "cached")
    => kx.event.value = kx.version

\* C19 as stated: a cached read made less than CACHE_TTL = 300000 ms after a
\* successful fetch, with no invalidation since, makes no provider call and
\* returns the stored value; one made at or after that time fetches again.
C19_FreshWithinTTL ==
    (CachedReadEntered /\ kx.fetchedAt[kx.event.key] # NoValue)
    => IF kx.event.at < kx.fetchedAt[kx.event.key] + 300000
         THEN /\ kx.event.hit
              /\ kx.event.value = kx.event.before.value
              /\ kx.calls[kx.event.slot].pc = "idle"
         ELSE /\ ~kx.event.hit
              /\ kx.calls[kx.event.slot].pc = "await"

\* C19 amended: the expiry of an entry is the Date.now() taken at the entry of the
\* call that fetched it plus 300000 ms.  A cached read entered before the expiry
\* of a filled entry makes no provider call and returns the entry's value; one
\* entered at or after the expiry, or with the entry empty, calls the provider
\* and on success replaces the entry.
C19_FreshUntilExpiry ==
    /\ CachedReadEntered
         => /\ kx.event.hit <=> (kx.event.before.value # NoValue
                                 /\ kx.event.at < kx.event.before.expiry)
            /\ kx.event.hit => /\ kx.event.value = kx.event.before.value
                               /\ kx.calls[kx.event.slot].pc = "idle"
                               /\ kx.cache[kx.event.key] = kx.event.before
            /\ ~kx.event.hit => /\ kx.calls[kx.event.slot].pc = "await"
                                /\ kx.calls[kx.event.slot].now = kx.event.at
    /\ (kx.pc = "on" /\ kx.executor = "gmail" /\ kx.event.kind = "stored")
         => kx.cache[kx.event.key] = [value |-> kx.event.value,
                                      expiry |-> kx.event.at + 300000]

\* gmail_list_labels one ms before the expiry of the entry: answered from the cache
C19_Witness ==
    /\ CachedReadEntered
    /\ kx.event.tool = "gmail_list_labels"
    /\ kx.event.hit
    /\ kx.event.at = 299999
    /\ kx.event.before.expiry = 300000
    /\ kx.event.value = kx.version

\* C21: under any interleaving of tool calls on one Gmail executor, whenever
\* cache.labels (resp. cache.profile) is non-null between two steps of the
\* handlers, labelsExpiry (resp. profileExpiry) is the expiry that was written
\* together with that value.
C21_NoHalfUpdatedEntry ==
    (kx.pc = "on" /\ kx.executor = "gmail")
    => \A k \in CacheKeys("gmail") :
         kx.cache[k].value # NoValue => kx.cache[k] = kx.written[k]

\* a second gmail_list_labels fetch, entered later than the first, has replaced
\* the entry the first one stored, while a third handler is suspended
C21_Witness ==
    /\ kx.pc = "on" /\ kx.executor = "gmail"
    /\ kx.event.kind = "stored" /\ kx.event.key = "labels"
    /\ kx.event.at = 1
    /\ kx.cache["labels"] = [value |-> 1, expiry |-> 300001]
    /\ \E s \in Slots : kx.calls[s].pc # "idle"

\* C33: the result of gmail_list_labels or gmail_get_profile called with access
\* token B depends only on B's account: it never returns data that was fetched
\* with a different access token A, for any sequence of earlier calls on the
\* same executor instance.
C33_OwnAccountOnly ==
    (/\ kx.pc = "on" /\ kx.executor = "gmail"
     /\ kx.event.kind = "call" /\ kx.event.key # "none"
     /\ kx.event.token # NULL
     /\ kx.event.hit)
    => kx.event.owner = kx.event.token

\* C34: every Gmail tool call that arrives without an access token fails with
\* the 'Access token is required' error and returns no account data, in every
\* state of the executor (including when the label or profile cache is
\* populated).
C34_NoTokenNoData ==
    (/\ kx.pc = "on" /\ kx.executor = "gmail"
     /\ kx.event.kind = "call"
     /\ kx.event.token = NULL)
    => /\ kx.event.refused
       /\ ~kx.event.hit
       /\ kx.event.value = NoValue

\* C35: under any interleaving of concurrent tool calls on one Gmail executor,
\* once a label mutation (create/update/delete) has completed, no
\* gmail_list_labels call that starts afterwards is answered from a cache entry
\* whose data was fetched before that mutation; a list fetch that was in flight
\* during the mutation does not re-populate the cache with pre-mutation data.
C35_NoStaleListAfterMutation ==
    (/\ kx.pc = "on" /\ kx.executor = "gmail"
     /\ kx.event.kind = "call" /\ kx.event.tool = "gmail_list_labels"
     /\ kx.event.hit)
    => kx.event.value >= kx.completed

\* C20: in the Teams executor a chat-list lookup (teams_list_chats, or the lookup
\* inside teams_send_message / teams_find_chat_by_name) made within
\* CACHE_TTL = 60000 ms of a successful chat-list fetch makes no provider call.
C20_ChatListCached ==
    (kx.pc = "on" /\ kx.executor = "teams" /\ kx.event.kind = "call"
        /\ kx.event.tool \in ChatListTools
        /\ kx.fetchedAt["chats"] # NoValue
        /\ kx.event.at < kx.fetchedAt["chats"] + 60000)
    => /\ kx.event.hit
       /\ kx.calls[kx.event.slot].pc = "idle"

(***************************************************************************)
(* One tool call handled by a server: the CallToolRequestSchema handler    *)
(* and the tool functions sendMessage and updateDraft of gmail-server.js,  *)
(* sendMessage and postChannelMessage of teams-server.js.  Argument texts  *)
(* are tuples of characters.  Every await of a tool function is a position *)
(* (hx.at); the provider call awaited there is made through the retry      *)
(* wrapper and ends with a response or with the wrapper's Error.           *)
(***************************************************************************)
\* largest number of chats GET /me/chats answers with
MaxChats == 2

\* an argument that is not supplied, a field that is null
Absent == <<"undefined">>

\* an argument that is a (non-zero) number: the servers do not check the
\* arguments against the inputSchema they declare
NotAString == <<"number">>

\* the characters String.prototype.trim removes and \s matches
Whitespace == {" "}

\* JavaScript truthiness of an argument
truthy(v) == v # Absent /\ v # <<>>

\* Array.prototype.find over the positions that satisfy the callback: the first
\* position, 0 for undefined
First(S) == IF S = {} THEN 0 ELSE CHOOSE i \in S : \A j \in S : i <= j

\* String.prototype.trim
trim(str) ==
    LET keep == {i \in 1 .. Len(str) : str[i] \notin Whitespace}
    IN  IF keep = {} THEN <<>>
        ELSE SubSeq(str, First(keep), CHOOSE i \in keep : \A j \in keep : j <= i)

RECURSIVE split(_, _)
\* String.prototype.split(sep) for a separator of one character
split(str, sep) ==
    LET at == First({i \in 1 .. Len(str) : str[i] = sep})
    IN  IF at = 0 THEN <<str>>
        ELSE <<SubSeq(str, 1, at - 1)>> \o split(SubSeq(str, at + 1, Len(str)), sep)

\* /^[^\s@]+@[^\s@]+\.[^\s@]+$/.test(email)
emailRegexTest(email) ==
    LET ats == {i \in 1 .. Len(email) : email[i] = "@"}
    IN  /\ \A i \in 1 .. Len(email) : email[i] \notin Whitespace
        /\ Cardinality(ats) = 1
        /\ First(ats) > 1
        /\ \E d \in (First(ats) + 2) .. (Len(email) - 1) : email[d] = "."

\* the tools of the model, and the server that has a case for each
HandledTools ==
    [gmail |-> {"gmail_send_message", "gmail_update_draft", "gmail_delete_label"},
     teams |-> {"teams_send_message", "teams_post_channel_message"}]

\* a name that no case of either switch matches
UnknownTool == "calendar_add_event"

CallNames == HandledTools["gmail"] \cup HandledTools["teams"] \cup {UnknownTool}

\* arguments: every field the five tool functions destructure
NoArgs == [accessToken |-> NULL, id |-> Absent, to |-> Absent, subject |-> Absent, body |-> Absent,
           cc |-> Absent, draftId |-> Absent, teamId |-> Absent, channelId |-> Absent,
           message |-> Absent, teamName |-> Absent, chatId |-> Absent,
           chatName |-> Absent, participantName |-> Absent,
           participantEmail |-> Absent, participants |-> <<>>]

\* values of `to` for gmail_send_message
GoodRecipients == { <<"a", "@", "b", ".", "c">>,
                    <<"a", "@", "b", ".", "c", ",", " ", "d", "@", "e", ".", "f">> }

\* recipients that are no address: no domain dot, a blank inside, no local part,
\* no @, an empty address after the comma
InvalidRecipients == { <<"a", "@", "b">>,
                       <<"a", " ", "b", "@", "c", ".", "d">>,
                       <<"@", "b", ".", "c">>,
                       <<"a", ".", "b">>,
                       <<"a", "@", "b", ".", "c", ",">> }

ToValues == {Absent, <<>>, <<" ">>, NotAString} \cup GoodRecipients \cup InvalidRecipients

SubjectValues == {Absent, <<>>, <<"s">>}

BodyValues == {Absent, <<" ", " ">>, NotAString, <<"h", "i">>}

MessageValues == {Absent, <<" ">>, NotAString, <<"h", "i">>}

IdValues == {Absent, <<"i", "d">>}

\* String.prototype.startsWith
startsWith(str, prefix) ==
    Len(prefix) <= Len(str) /\ SubSeq(str, 1, Len(prefix)) = prefix

\* the keys of GMAIL_SYSTEM_LABELS, each with the label id it stands for
GMAIL_SYSTEM_LABELS ==
    { <<<<"i", "n", "b", "o", "x">>, <<"I", "N", "B", "O", "X">>>>,
      <<<<"s", "e", "n", "t">>, <<"S", "E", "N", "T">>>>,
      <<<<"d", "r", "a", "f", "t", "s">>, <<"D", "R", "A", "F", "T">>>>,
      <<<<"s", "p", "a", "m">>, <<"S", "P", "A", "M">>>>,
      <<<<"t", "r", "a", "s", "h">>, <<"T", "R", "A", "S", "H">>>>,
      <<<<"u", "n", "r", "e", "a", "d">>, <<"U", "N", "R", "E", "A", "D">>>>,
      <<<<"s", "t", "a", "r", "r", "e", "d">>, <<"S", "T", "A", "R", "R", "E", "D">>>>,
      <<<<"i", "m", "p", "o", "r", "t", "a", "n", "t">>, <<"I", "M", "P", "O", "R", "T", "A", "N", "T">>>> }

\* GMAIL_SYSTEM_LABELS[key]: the label id under the key, undefined for no key
SystemLabelOf(key) ==
    IF \E e \in GMAIL_SYSTEM_LABELS : e[1] = key
      THEN (CHOOSE e \in GMAIL_SYSTEM_LABELS : e[1] = key)[2]
      ELSE Absent

\* label ids gmail_delete_label is called with: system labels as Gmail
\* names them and in other letter cases, category labels, the key 'drafts',
\* a label of the user
LabelIds == { Absent, NotAString,
              <<"I", "N", "B", "O", "X">>, <<"i", "n", "b", "o", "x">>, <<"S", "e", "n", "t">>,
              <<"D", "R", "A", "F", "T">>, <<"d", "r", "a", "f", "t">>,
              <<"d", "r", "a", "f", "t", "s">>,
              <<"C", "A", "T", "E", "G", "O", "R", "Y", "_", "S", "O", "C", "I", "A", "L">>,
              <<"c", "a", "t", "e", "g", "o", "r", "y", "_", "s", "o", "c", "i", "a", "l">>,
              <<"L", "a", "b", "e", "l", "_", "1">> }

\* values of the fields gmail_update_draft may replace
NewValues == {Absent, <<"n", "e", "w">>}

ChatNames == {Absent, <<"D", "E", "V">>, <<" ", "d", "e", "v", " ">>}

ParticipantNames == {Absent, <<"A", "N", "N">>}

ParticipantEmails == {Absent, <<"A", "n", "n", "@", "x", ".", "i", "o">>}

\* args.participants as the list of its entries' email fields
ParticipantLists ==
    { <<>>,
      <<Absent>>,
      <<<<"a", "n", "n", "@", "x", ".", "i", "o">>>>,
      <<<<"a", "n", "n", "@", "x", ".", "i", "o">>, <<"b", "o", "b", "@", "x", ".", "i", "o">>>> }

\* the arguments a call of a tool is made with
CallArgs(executor, name) ==
    IF name \notin HandledTools[executor]
      THEN {[NoArgs EXCEPT !.accessToken = t] : t \in {NULL, GoogleToken}}
    ELSE IF name = "gmail_send_message"
      THEN {[NoArgs EXCEPT !.accessToken = t, !.to = to, !.subject = su, !.body = bo] :
              t \in {NULL, GoogleToken}, to \in ToValues, su \in SubjectValues,
              bo \in BodyValues}
    ELSE IF name = "gmail_update_draft"
      THEN {[NoArgs EXCEPT !.accessToken = t, !.draftId = id, !.to = to,
                           !.subject = su, !.body = bo, !.cc = cc] :
              t \in {NULL, GoogleToken}, id \in IdValues, to \in NewValues,
              su \in NewValues, bo \in NewValues, cc \in NewValues}
    ELSE IF name = "gmail_delete_label"
      THEN {[NoArgs EXCEPT !.accessToken = t, !.id = id] :
              t \in {NULL, GoogleToken}, id \in LabelIds}
    ELSE IF name = "teams_post_channel_message"
      THEN {[NoArgs EXCEPT !.accessToken = t, !.teamId = ti, !.channelId = ci,
                           !.message = m] :
              t \in {NULL, MicrosoftToken}, ti \in IdValues, ci \in IdValues,
              m \in MessageValues}
    ELSE {[NoArgs EXCEPT !.accessToken = t, !.message = m, !.teamName = tn,
                         !.chatId = id, !.chatName = cn, !.participantName = pn,
                         !.participantEmail = pe, !.participants = ps] :
              t \in {NULL, MicrosoftToken}, m \in MessageValues, tn \in IdValues,
              id \in IdValues, cn \in ChatNames, pn \in ParticipantNames,
              pe \in ParticipantEmails, ps \in ParticipantLists}

\* chat members as GET /me/chats?$expand=members lists them
Me == [displayName |-> <<"M", "e">>, email |-> <<"m", "e", "@", "x", ".", "i", "o">>]

Ann == [displayName |-> <<"A", "n", "n", " ", "L", "e", "e">>,
        email |-> <<"a", "n", "n", "@", "x", ".", "i", "o">>]

Bob == [displayName |-> <<"B", "o", "b">>, email |-> Absent]

Topics == {Absent, <<"D", "e", "v", " ">>, <<"w", "e", "b", " ", "d", "e", "v">>}

ChatTypes == {"oneOnOne", "group"}

Chats == [topic : Topics, chatType : ChatTypes, members : {<<Me, Ann>>, <<Me, Bob>>}]

\* chatsRes.value
ChatLists == UNION {[1 .. n -> Chats] : n \in 0 .. MaxChats}

\* targetChatId
NoChat == <<>>

GivenChat == <<"given">>

CreatedChat == <<"created">>

ListedChat(i) == <<"listed", i>>

\* mutant: one search, for the first chat whose topic contains the name
FindChatByTopic_FirstContaining(chats, chatName) ==
    LET searchTerm == trim(toLowerCase(chatName))
    IN  First({i \in 1 .. Len(chats) :
                  truthy(chats[i].topic)
                  /\ includes(toLowerCase(chats[i].topic), searchTerm)})

\* sendMessage: chatsRes.value.find(topic equal) || chatsRes.value.find(topic includes)
FindChatByTopic(chats, chatName) ==
    LET searchTerm == trim(toLowerCase(chatName))
        exact == First({i \in 1 .. Len(chats) :
                          truthy(chats[i].topic)
                          /\ trim(toLowerCase(chats[i].topic)) = searchTerm})
    IN  IF exact # 0 THEN exact
        ELSE First({i \in 1 .. Len(chats) :
                      truthy(chats[i].topic)
                      /\ includes(toLowerCase(chats[i].topic), searchTerm)})

\* c.members?.some(m => displayName includes searchTerm || email includes searchTerm)
SomeMember(chat, searchTerm) ==
    \E k \in 1 .. Len(chat.members) :
        LET m == chat.members[k]
        IN  \/ truthy(m.displayName) /\ includes(toLowerCase(m.displayName), searchTerm)
            \/ truthy(m.email) /\ includes(toLowerCase(m.email), searchTerm)

\* sendMessage: the oneOnOne chat with the participant, else any chat with them
FindChatByParticipant(chats, participantName, participantEmail) ==
    LET searchTerm == trim(toLowerCase(IF truthy(participantName) THEN participantName
                                       ELSE participantEmail))
        oneOnOneChat == First({i \in 1 .. Len(chats) :
                                 chats[i].chatType = "oneOnOne"
                                 /\ SomeMember(chats[i], searchTerm)})
    IN  IF oneOnOneChat # 0 THEN oneOnOneChat
        ELSE First({i \in 1 .. Len(chats) : SomeMember(chats[i], searchTerm)})

\* the draft as the provider holds it: its headers and its body
Drafts == [to : {<<"o", "l", "d">>}, subject : {<<"o", "l", "d">>},
           body : {<<"o", "l", "d">>}, cc : {<<>>, <<"o", "l", "d">>}]

NoDraft == [to |-> <<>>, subject |-> <<>>, body |-> <<>>, cc |-> <<>>]

\* updateDraft: the message built from the arguments and the headers of the
\* existing draft (getHeader gives '' for a header the draft does not have)
UpdatedDraft(args, existing) ==
    [to |-> IF truthy(args.to) THEN args.to ELSE existing.to,
     subject |-> IF truthy(args.subject) THEN args.subject ELSE existing.subject,
     body |-> IF truthy(args.body) THEN args.body ELSE <<>>,
     cc |-> IF truthy(args.cc) THEN args.cc ELSE existing.cc]

NoResult == [isError |-> FALSE, text |-> [kind |-> "none"]]

\* mutant: a TypeError of a tool function leaves the handler
CatchHandlerError_RethrowsTypeError(h, message) ==
    IF message = "TypeError"
      THEN [h EXCEPT !.pc = "done", !.threw = TRUE]
      ELSE [h EXCEPT !.pc = "done",
                     !.result = [isError |-> TRUE,
                                 text |-> [error |-> TRUE, message |-> message,
                                           tool |-> h.name]]]

\* catch (error) of the CallTool handler: the error becomes the result
CatchHandlerError(h, message) ==
    [h EXCEPT !.pc = "done",
              !.result = [isError |-> TRUE,
                          text |-> [error |-> TRUE, message |-> message,
                                    tool |-> h.name]]]

\* the retry wrapper threw: the provider call failed for good
ProviderError(h) == CatchHandlerError([h EXCEPT !.providerFailed = TRUE], "providerError")

\* return { content: [{ type: 'text', text: JSON.stringify(...) }] }
Returns(h, text) == [h EXCEPT !.pc = "done", !.result = [isError |-> FALSE, text |-> text]]

\* await this.executeWithRetry(...) / await this.executeGraphAPICall(...)
Awaits(h, at, endpoint) ==
    [h EXCEPT !.pc = "await", !.at = at, !.apiCalls = Append(@, endpoint)]

\* mutant: gmail sendMessage without the check of the body
gmailSendMessageError_NoBodyCheck(a) ==
    IF a.body = NotAString THEN "TypeError"
    ELSE IF ~truthy(a.to) THEN "Recipient email address (to) is required"
    ELSE IF a.to = NotAString THEN "TypeError"
    ELSE IF trim(a.to) = <<>> THEN "Recipient email address (to) is required"
    ELSE IF ~truthy(a.subject) THEN "Email subject is required"
    ELSE IF \E k \in 1 .. Len(split(a.to, ",")) :
                ~emailRegexTest(trim(split(a.to, ",")[k]))
      THEN "Invalid email address"
    ELSE IF a.accessToken = NULL THEN "Access token is required. Please sign in with Google."
    ELSE "none"

\* gmail sendMessage up to the provider call: the Error it throws, "none" if it
\* reaches the call (body.substring of the log line and to.trim are no
\* functions of a number)
gmailSendMessageError(a) ==
    IF a.body = NotAString THEN "TypeError"
    ELSE IF ~truthy(a.to) THEN "Recipient email address (to) is required"
    ELSE IF a.to = NotAString THEN "TypeError"
    ELSE IF trim(a.to) = <<>> THEN "Recipient email address (to) is required"
    ELSE IF ~truthy(a.subject) THEN "Email subject is required"
    ELSE IF ~truthy(a.body) \/ trim(a.body) = <<>>
      THEN "Email body is required and cannot be empty"
    ELSE IF \E k \in 1 .. Len(split(a.to, ",")) :
                ~emailRegexTest(trim(split(a.to, ",")[k]))
      THEN "Invalid email address"
    ELSE IF a.accessToken = NULL THEN "Access token is required. Please sign in with Google."
    ELSE "none"

\* gmail sendMessage
gmailSendMessage(h) ==
    IF gmailSendMessageError(h.args) # "none"
      THEN CatchHandlerError(h, gmailSendMessageError(h.args))
      ELSE Awaits(h, "send", "POST messages/send")

\* updateDraft up to drafts.get
updateDraft(h) ==
    IF ~truthy(h.args.draftId) THEN CatchHandlerError(h, "draftId is required")
    ELSE IF h.args.accessToken = NULL
      THEN CatchHandlerError(h, "Access token is required. Please sign in with Google.")
    ELSE Awaits(h, "draftGet", "GET drafts/{id}")

\* deleteLabel up to the provider call (id.startsWith is no function of a
\* number)
deleteLabel(h) ==
    LET id == h.args.id
    IN  IF ~truthy(id) THEN CatchHandlerError(h, "Label ID is required")
        ELSE IF id = NotAString THEN CatchHandlerError(h, "TypeError")
        ELSE IF startsWith(id, <<"C", "A", "T", "E", "G", "O", "R", "Y", "_">>)
                \/ truthy(SystemLabelOf(toLowerCase(id)))
          THEN CatchHandlerError(h, "Cannot delete system labels")
        ELSE IF h.args.accessToken = NULL
          THEN CatchHandlerError(h, "Access token is required. Please sign in with Google.")
        ELSE Awaits(h, "labelDelete", "DELETE labels/{id}")

\* postChannelMessage up to the provider call
postChannelMessage(h) ==
    LET a == h.args
    IN  IF a.accessToken = NULL THEN CatchHandlerError(h, "Access token is required")
        ELSE IF ~truthy(a.teamId) THEN CatchHandlerError(h, "teamId is required")
        ELSE IF ~truthy(a.channelId) THEN CatchHandlerError(h, "channelId is required")
        ELSE IF ~truthy(a.message) THEN CatchHandlerError(h, "Message content is required")
        ELSE IF a.message = NotAString THEN CatchHandlerError(h, "TypeError")
        ELSE IF trim(a.message) = <<>>
          THEN CatchHandlerError(h, "Message content is required")
        ELSE Awaits(h, "postChannel", "POST /teams/{id}/channels/{id}/messages")

\* teams sendMessage from `if (!targetChatId)` on: create a chat for
\* participantEmail || participants[0]?.email, or post to the chat found
CreateOrPost(h) ==
    LET a == h.args
        targetEmail == IF truthy(a.participantEmail) THEN a.participantEmail
                       ELSE IF Len(a.participants) > 0 THEN a.participants[1]
                       ELSE Absent
    IN  IF h.targetChatId # NoChat
          THEN Awaits(h, "chatPost", "POST /me/chats/{id}/messages")
        ELSE IF ~truthy(targetEmail)
          THEN CatchHandlerError(h, "Could not find an existing chat")
        ELSE Awaits(h, "userLookup", "GET /users/{email}")

\* teams sendMessage up to its first provider call
teamsSendMessage(h) ==
    LET a == h.args
    IN  IF a.accessToken = NULL THEN CatchHandlerError(h, "Access token is required")
        ELSE IF ~truthy(a.message) THEN CatchHandlerError(h, "Message content is required")
        ELSE IF a.message = NotAString THEN CatchHandlerError(h, "TypeError")
        ELSE IF trim(a.message) = <<>>
          THEN CatchHandlerError(h, "Message content is required")
        ELSE IF truthy(a.teamName) THEN Awaits(h, "joinedTeams", "GET /me/joinedTeams")
        ELSE IF ~truthy(a.chatId)
                /\ (truthy(a.chatName) \/ truthy(a.participantName)
                    \/ truthy(a.participantEmail))
          THEN Awaits(h, "chats", "GET /me/chats")
        ELSE CreateOrPost([h EXCEPT !.targetChatId =
                              IF truthy(a.chatId) THEN GivenChat ELSE NoChat])

\* teams sendMessage after chatsRes: the search by topic or by participant
ResolveChat(h, chats) ==
    LET a == h.args
        g == [h EXCEPT !.chats = chats, !.looked = TRUE]
    IN  IF truthy(a.chatName) /\ ~truthy(a.participantName)
           /\ ~truthy(a.participantEmail)
          THEN IF FindChatByTopic(chats, a.chatName) # 0
                 THEN CreateOrPost([g EXCEPT !.targetChatId =
                                       ListedChat(FindChatByTopic(chats, a.chatName))])
                 ELSE CatchHandlerError(g, "Chat not found")
          ELSE LET i == FindChatByParticipant(chats, a.participantName,
                                              a.participantEmail)
               IN  CreateOrPost([g EXCEPT !.targetChatId =
                                    IF i # 0 THEN ListedChat(i) ELSE NoChat])

RECURSIVE AddParticipants(_, _)
\* for (const p of participants.slice(1)): look up the next participant that has
\* an email, then POST /chats
AddParticipants(h, k) ==
    IF k > Len(h.args.participants) THEN Awaits(h, "createChat", "POST /chats")
    ELSE IF truthy(h.args.participants[k])
      THEN Awaits([h EXCEPT !.k = k], "participantLookup", "GET /users/{email}")
    ELSE AddParticipants(h, k + 1)

NoCallState == [pc |-> "call", at |-> "none", apiCalls |-> <<>>,
                providerFailed |-> FALSE, result |-> NoResult, threw |-> FALSE,
                chats |-> <<>>, looked |-> FALSE, targetChatId |-> NoChat, k |-> 0,
                memberBindings |-> 0, raw |-> NoDraft]

\* a request tools/call arrives at a server
ToolCallInit ==
    /\ ChatIdle
    /\ rx = RxIdle
    /\ cx = CxIdle
    /\ gx = GxIdle
    /\ kx = KxIdle
    /\ sx = SxIdle
    /\ mx = MxIdle
    /\ ux = UxIdle
    /\ \E ex \in Executors, name \in CallNames :
       \E args \in CallArgs(ex, name), draft \in Drafts :
         /\ name # "gmail_update_draft" => draft.cc = <<>>
         /\ hx = [executor |-> ex, name |-> name, args |-> args, draft |-> draft,
                  draft0 |-> draft] @@ NoCallState

\* the handler's switch and the tool function up to its first await
CallToolEnter ==
    /\ hx.pc = "call"
    /\ hx' = IF hx.name \notin HandledTools[hx.executor]
               THEN CatchHandlerError(hx, "Unknown tool")
             ELSE IF hx.name = "gmail_send_message" THEN gmailSendMessage(hx)
             ELSE IF hx.name = "gmail_update_draft" THEN updateDraft(hx)
             ELSE IF hx.name = "gmail_delete_label" THEN deleteLabel(hx)
             ELSE IF hx.name = "teams_post_channel_message" THEN postChannelMessage(hx)
             ELSE teamsSendMessage(hx)
    /\ UNCHANGED <<chatVars, rx, cx, gx, kx, sx, mx, ux>>

\* gmail.users.messages.send settles
GmailSendReturns ==
    /\ hx.pc = "await" /\ hx.at = "send"
    /\ \/ hx' = ProviderError(hx)
       \/ hx' = Returns(hx, [success |-> TRUE, type |-> "email"])
    /\ UNCHANGED <<chatVars, rx, cx, gx, kx, sx, mx, ux>>

\* gmail.users.drafts.get settles: updateDraft builds the message and calls
\* drafts.update
DraftGetReturns ==
    /\ hx.pc = "await" /\ hx.at = "draftGet"
    /\ \/ hx' = ProviderError(hx)
       \/ hx' = Awaits([hx EXCEPT !.raw = UpdatedDraft(hx.args, hx.draft)],
                       "draftUpdate", "PUT drafts/{id}")
    /\ UNCHANGED <<chatVars, rx, cx, gx, kx, sx, mx, ux>>

\* gmail.users.drafts.update settles: the provider has replaced the draft's message
DraftUpdateReturns ==
    /\ hx.pc = "await" /\ hx.at = "draftUpdate"
    /\ \/ hx' = ProviderError(hx)
       \/ hx' = Returns([hx EXCEPT !.draft = hx.raw],
                        [success |-> TRUE, type |-> "draft"])
    /\ UNCHANGED <<chatVars, rx, cx, gx, kx, sx, mx, ux>>

\* gmail.users.labels.delete settles
LabelDeleteReturns ==
    /\ hx.pc = "await" /\ hx.at = "labelDelete"
    /\ \/ hx' = ProviderError(hx)
       \/ hx' = Returns(hx, [success |-> TRUE, type |-> "labelDeleted"])
    /\ UNCHANGED <<chatVars, rx, cx, gx, kx, sx, mx, ux>>

\* postChannelMessage: the POST settles
PostChannelReturns ==
    /\ hx.pc = "await" /\ hx.at = "postChannel"
    /\ \/ hx' = ProviderError(hx)
       \/ hx' = Returns(hx, [success |-> TRUE, type |-> "channelMessage"])
    /\ UNCHANGED <<chatVars, rx, cx, gx, kx, sx, mx, ux>>

\* teams sendMessage: GET /me/joinedTeams settles, the team is in the list or not
JoinedTeamsReturn ==
    /\ hx.pc = "await" /\ hx.at = "joinedTeams"
    /\ \/ hx' = ProviderError(hx)
       \/ hx' = CatchHandlerError(hx, "Team not found")
       \/ hx' = Awaits(hx, "channels", "GET /teams/{id}/channels")
    /\ UNCHANGED <<chatVars, rx, cx, gx, kx, sx, mx, ux>>

\* teams sendMessage: the channel list settles, with or without a channel
ChannelsReturn ==
    /\ hx.pc = "await" /\ hx.at = "channels"
    /\ \/ hx' = ProviderError(hx)
       \/ hx' = CatchHandlerError(hx, "No channels found in team")
       \/ hx' = Awaits(hx, "channelPost", "POST /teams/{id}/channels/{id}/messages")
    /\ UNCHANGED <<chatVars, rx, cx, gx, kx, sx, mx, ux>>

\* teams sendMessage: the POST to the channel settles
ChannelPostReturns ==
    /\ hx.pc = "await" /\ hx.at = "channelPost"
    /\ \/ hx' = ProviderError(hx)
       \/ hx' = Returns(hx, [success |-> TRUE, type |-> "channel"])
    /\ UNCHANGED <<chatVars, rx, cx, gx, kx, sx, mx, ux>>

\* teams sendMessage: GET /me/chats settles
ChatsReturn ==
    /\ hx.pc = "await" /\ hx.at = "chats"
    /\ \/ hx' = ProviderError(hx)
       \/ \E chats \in ChatLists : hx' = ResolveChat(hx, chats)
    /\ UNCHANGED <<chatVars, rx, cx, gx, kx, sx, mx, ux>>

\* teams sendMessage: GET /users/{targetEmail} settles; its failure is rethrown
\* with the message of the inner catch
UserLookupReturns ==
    /\ hx.pc = "await" /\ hx.at = "userLookup"
    /\ \/ hx' = CatchHandlerError([hx EXCEPT !.providerFailed = TRUE],
                                  "Could not find user with email")
       \/ hx' = Awaits(hx, "me", "GET /me")
    /\ UNCHANGED <<chatVars, rx, cx, gx, kx, sx, mx, ux>>

\* teams sendMessage: GET /me settles; the two owners are bound
MeReturns ==
    /\ hx.pc = "await" /\ hx.at = "me"
    /\ \/ hx' = ProviderError(hx)
       \/ hx' = AddParticipants([hx EXCEPT !.memberBindings = 2], 2)
    /\ UNCHANGED <<chatVars, rx, cx, gx, kx, sx, mx, ux>>

\* teams sendMessage: the lookup of a further participant settles; a failure
\* is logged and the participant left out
ParticipantLookupReturns ==
    /\ hx.pc = "await" /\ hx.at = "participantLookup"
    /\ \/ hx' = AddParticipants(hx, hx.k + 1)
       \/ hx' = AddParticipants([hx EXCEPT !.memberBindings = @ + 1], hx.k + 1)
    /\ UNCHANGED <<chatVars, rx, cx, gx, kx, sx, mx, ux>>

\* teams sendMessage: POST /chats settles
CreateChatReturns ==
    /\ hx.pc = "await" /\ hx.at = "createChat"
    /\ \/ hx' = ProviderError(hx)
       \/ hx' = Awaits([hx EXCEPT !.targetChatId = CreatedChat],
                       "chatPost", "POST /me/chats/{id}/messages")
    /\ UNCHANGED <<chatVars, rx, cx, gx, kx, sx, mx, ux>>

\* teams sendMessage: the POST of the message to the chat settles
ChatPostReturns ==
    /\ hx.pc = "await" /\ hx.at = "chatPost"
    /\ \/ hx' = ProviderError(hx)
       \/ hx' = Returns(hx, [success |-> TRUE, type |-> "chat",
                             chatId |-> hx.targetChatId])
    /\ UNCHANGED <<chatVars, rx, cx, gx, kx, sx, mx, ux>>

ToolCallNext ==
    \/ CallToolEnter
    \/ GmailSendReturns
    \/ DraftGetReturns
    \/ DraftUpdateReturns
    \/ LabelDeleteReturns
    \/ PostChannelReturns
    \/ JoinedTeamsReturn
    \/ ChannelsReturn
    \/ ChannelPostReturns
    \/ ChatsReturn
    \/ UserLookupReturns
    \/ MeReturns
    \/ ParticipantLookupReturns
    \/ CreateChatReturns
    \/ ChatPostReturns

ToolCallSpec == ToolCallInit /\ [][ToolCallNext]_vars

(***************************************************************************)
(* Properties of the tool calls.                                           *)
(***************************************************************************)
\* a field that is missing or holds nothing but blanks
Blank(v) == v = Absent \/ (v # NotAString /\ \A i \in 1 .. Len(v) : v[i] = " ")

\* a send call with a missing or blank required field or an invalid recipient
InvalidSend ==
    /\ hx.pc # "off"
    /\ hx.name \in HandledTools[hx.executor]
    /\ \/ /\ hx.name = "gmail_send_message"
          /\ \/ Blank(hx.args.to)
             \/ hx.args.subject = Absent
             \/ Blank(hx.args.body)
             \/ hx.args.to \in InvalidRecipients
       \/ /\ hx.name \in {"teams_send_message", "teams_post_channel_message"}
          /\ Blank(hx.args.message)

ChatLookedUp ==
    hx.pc # "off" /\ hx.name = "teams_send_message" /\ hx.looked

\* the chats whose topic equals the name, case and surrounding blanks aside
TopicEquals(chats, name) ==
    {i \in 1 .. Len(chats) :
        chats[i].topic # Absent
        /\ toLowerCase(trim(chats[i].topic)) = toLowerCase(trim(name))}

\* the oneOnOne chats with a member whose display name or email contains the
\* term, case aside
OneOnOneWith(chats, term) ==
    {i \in 1 .. Len(chats) :
        /\ chats[i].chatType = "oneOnOne"
        /\ \E k \in 1 .. Len(chats[i].members) :
             \/ /\ chats[i].members[k].displayName # Absent
                /\ includes(toLowerCase(chats[i].members[k].displayName),
                            toLowerCase(trim(term)))
             \/ /\ chats[i].members[k].email # Absent
                /\ includes(toLowerCase(chats[i].members[k].email),
                            toLowerCase(trim(term)))}

\* C23: teams_send_message resolves its target case-insensitively and by
\* preference.  Given chatName only, a chat whose topic equals the name is chosen
\* over any chat whose topic merely contains it, whatever their order in the
\* provider's list; given participantName or participantEmail (the name is the
\* search term when both are given), a oneOnOne chat containing a matching member
\* is chosen over any group chat containing a matching member.
C23_TargetByPreference ==
    ChatLookedUp
    => LET a == hx.args
           byTopic == a.chatName # Absent /\ a.participantName = Absent
                      /\ a.participantEmail = Absent
           term == IF a.participantName # Absent THEN a.participantName
                   ELSE a.participantEmail
       IN  /\ (byTopic /\ TopicEquals(hx.chats, a.chatName) # {})
                => \E i \in TopicEquals(hx.chats, a.chatName) :
                      hx.targetChatId = ListedChat(i)
           /\ (~byTopic /\ OneOnOneWith(hx.chats, term) # {})
                => \E i \in OneOnOneWith(hx.chats, term) :
                      hx.targetChatId = ListedChat(i)

\* chatName ' dev ': the chat 'web dev' comes first in the list, the chat 'Dev '
\* second, and the message has been posted to the second
C23_Witness ==
    /\ ChatLookedUp
    /\ hx.pc = "done" /\ ~hx.result.isError
    /\ hx.args.chatName = <<" ", "d", "e", "v", " ">>
    /\ hx.args.participantName = Absent /\ hx.args.participantEmail = Absent
    /\ Len(hx.chats) = 2
    /\ hx.chats[1].topic = <<"w", "e", "b", " ", "d", "e", "v">>
    /\ hx.chats[2].topic = <<"D", "e", "v", " ">>
    /\ hx.result.text.chatId = ListedChat(2)

\* C24: teams_send_message addressed to a person (by participantName or by
\* participantEmail) with a non-blank message succeeds whether or not a chat with
\* that person exists (here: whenever no provider call fails).
C24_SendToPersonSucceeds ==
    (/\ hx.pc = "done"
     /\ hx.name = "teams_send_message" /\ hx.executor = "teams"
     /\ hx.args.accessToken # NULL
     /\ hx.args.message = <<"h", "i">>
     /\ hx.args.teamName = Absent /\ hx.args.chatId = Absent
     /\ hx.args.chatName = Absent
     /\ (hx.args.participantName # Absent \/ hx.args.participantEmail # Absent)
     /\ ~hx.providerFailed)
    => ~hx.result.isError

\* C29: the tool-call handler of each server never throws to its caller: an
\* error raised by a tool implementation (validation, missing token, provider
\* failure after retries, unknown tool name) is returned as a result with
\* isError = true whose text is JSON {error: true, message, tool}.
C29_HandlerNeverThrows ==
    hx.pc # "off"
    => /\ ~hx.threw
       /\ hx.pc = "done"
            => /\ hx.result # NoResult
               /\ (\/ hx.name \notin HandledTools[hx.executor]
                   \/ hx.args.accessToken = NULL
                   \/ hx.providerFailed
                   \/ InvalidSend
                   \/ NotAString \in {hx.args.to, hx.args.body, hx.args.message})
                    => /\ hx.result.isError
                       /\ hx.result.text.error
                       /\ hx.result.text.tool = hx.name
                       /\ hx.result.text.message \in STRING
                       /\ DOMAIN hx.result.text = {"error", "message", "tool"}

\* teams_post_channel_message whose message is a number: message.trim is no
\* function, and the TypeError has become the result
C29_Witness ==
    /\ hx.pc = "done"
    /\ hx.name = "teams_post_channel_message" /\ hx.executor = "teams"
    /\ hx.args.message = NotAString
    /\ hx.result = [isError |-> TRUE,
                    text |-> [error |-> TRUE, message |-> "TypeError",
                              tool |-> "teams_post_channel_message"]]

\* C30: gmail_update_draft changes only the fields supplied in the call: every
\* one of to, subject, body and cc that is omitted keeps the value the draft had
\* before the update.
C30_OmittedFieldsKept ==
    (/\ hx.pc = "done"
     /\ hx.name = "gmail_update_draft" /\ hx.executor = "gmail"
     /\ ~hx.result.isError)
    => \A f \in {"to", "subject", "body", "cc"} :
          hx.args[f] = Absent => hx.draft[f] = hx.draft0[f]

\* the ids of Gmail's system labels (the values of GMAIL_SYSTEM_LABELS)
SystemLabelIds == {e[2] : e \in GMAIL_SYSTEM_LABELS}

\* a category label, or the id of a system label in any letter case
IsSystemLabelId(id) ==
    /\ id \notin {Absent, NotAString}
    /\ \/ startsWith(id, <<"C", "A", "T", "E", "G", "O", "R", "Y", "_">>)
       \/ \E l \in SystemLabelIds : toLowerCase(id) = toLowerCase(l)

\* C31: gmail_delete_label never sends a delete request to the provider for a
\* system label: for every id that is a category label (CATEGORY_*) or one of
\* the system label ids INBOX, SENT, DRAFT, SPAM, TRASH, UNREAD, STARRED,
\* IMPORTANT (in any letter case), it fails with 'Cannot delete system labels'
\* before any provider call.  Stated of the calls that carry a credential
\* (without one the same ids end with 'Access token is required').
C31_SystemLabelNotDeleted ==
    (/\ hx.pc # "off"
     /\ hx.name = "gmail_delete_label" /\ hx.executor = "gmail"
     /\ hx.args.accessToken # NULL
     /\ IsSystemLabelId(hx.args.id))
    => /\ hx.apiCalls = <<>>
       /\ hx.pc = "done"
            => /\ hx.result.isError
               /\ hx.result.text.message = "Cannot delete system labels"

(***************************************************************************)
(* getChatStatus: status queries handled one after the other.  The clients *)
(* the gateway connected for one query stay connected for the next.        *)
(***************************************************************************)
\* number of status queries in a behaviour of the model
MaxQueries == 3

\* mutant: 'teams' is reported whether or not there is a Microsoft credential
StatusProviders_TeamsAlways(g, m) ==
    (IF g # NULL THEN <<"gmail">> ELSE <<>>) \o <<"teams">>

\* getChatStatus: providers.push('gmail') / providers.push('teams')
StatusProviders(g, m) ==
    (IF g # NULL THEN <<"gmail">> ELSE <<>>)
    \o (IF m # NULL THEN <<"teams">> ELSE <<>>)

\* capabilities of an authenticated answer
Capabilities(g, m) ==
    {"standard_chat", "mcp_tools"}
    \cup (IF g # NULL THEN {"email_access"} ELSE {})
    \cup (IF m # NULL THEN {"teams_access"} ELSE {})

NoStatusResponse == [status |-> 0]

\* res.json({ authenticated: false, ... })
NotAuthenticatedResponse ==
    [status |-> 200, authenticated |-> FALSE, connectedProviders |-> <<>>,
     availableTools |-> <<>>, capabilities |-> {"standard_chat"}]

\* res.json({ authenticated: true, ... })
StatusResponse(s, tools) ==
    [status |-> 200, authenticated |-> TRUE, connectedProviders |-> s.providers,
     availableTools |-> tools,
     capabilities |-> Capabilities(s.googleAccessToken, s.microsoftAccessToken)]

\* catch (error) of getChatStatus: res.status(500).json({ error })
StatusErrorResponse == [status |-> 500, error |-> "Failed to get chat status"]

\* no call of mcpClient.getAvailableTools is under way
NoGateway(clients) ==
    [pc |-> "done", providers |-> <<>>, i |-> 1, tools |-> <<>>, clients |-> clients,
     listed |-> <<>>, threw |-> FALSE]

\* getChatStatus after a step of mcpClient.getAvailableTools: answer when the
\* gateway has returned (or thrown), else wait for its next step
AfterGateway(s, g) ==
    IF g.pc # "done" THEN [s EXCEPT !.g = g]
    ELSE IF g.threw THEN [s EXCEPT !.pc = "idle", !.g = g, !.res = StatusErrorResponse]
    ELSE [s EXCEPT !.pc = "idle", !.g = g, !.res = StatusResponse(s, g.tools)]

\* the server is up, no client is connected
StatusInit ==
    /\ ChatIdle
    /\ rx = RxIdle
    /\ cx = CxIdle
    /\ gx = GxIdle
    /\ kx = KxIdle
    /\ hx = HxIdle
    /\ mx = MxIdle
    /\ ux = UxIdle
    /\ sx = [pc |-> "idle", query |-> 0, googleAccessToken |-> NULL,
             microsoftAccessToken |-> NULL, providers |-> <<>>,
             g |-> NoGateway({}), res |-> NoStatusResponse, tokenThrew |-> FALSE,
             nGetTools |-> 0, nCallTool |-> 0]

\* getChatStatus up to `await getUserAccessToken(req)`
StatusReceive ==
    /\ sx.pc = "idle"
    /\ sx.query < MaxQueries
    /\ sx' = [sx EXCEPT !.pc = "awaitToken", !.query = @ + 1,
                        !.googleAccessToken = NULL, !.microsoftAccessToken = NULL,
                        !.providers = <<>>, !.g = NoGateway(sx.g.clients),
                        !.res = NoStatusResponse, !.tokenThrew = FALSE,
                        !.nGetTools = 0]
    /\ UNCHANGED <<chatVars, rx, cx, gx, kx, hx, mx, ux>>

\* getUserAccessToken returns the two tokens (each possibly null) or throws;
\* without provider the answer is sent at once, else the gateway is asked
StatusTokenReturns ==
    /\ sx.pc = "awaitToken"
    /\ \/ sx' = [sx EXCEPT !.pc = "idle", !.tokenThrew = TRUE,
                           !.res = StatusErrorResponse]
       \/ \E g \in {NULL, GoogleToken}, m \in {NULL, MicrosoftToken} :
            LET s == [sx EXCEPT !.googleAccessToken = g, !.microsoftAccessToken = m,
                                !.providers = StatusProviders(g, m)]
            IN  IF Len(s.providers) = 0
                  THEN sx' = [s EXCEPT !.pc = "idle", !.res = NotAuthenticatedResponse]
                  ELSE sx' = AfterGateway(
                                 [s EXCEPT !.pc = "gateway", !.nGetTools = @ + 1],
                                 Iterate([NoGateway(sx.g.clients) EXCEPT
                                             !.pc = "enter",
                                             !.providers = s.providers]))
    /\ UNCHANGED <<chatVars, rx, cx, gx, kx, hx, mx, ux>>

\* inside getAvailableTools: connectGmail() / connectTeams() returns or throws
StatusConnectReturns ==
    /\ sx.pc = "gateway" /\ sx.g.pc = "connect"
    /\ \/ sx' = AfterGateway(sx, [sx.g EXCEPT !.pc = "list",
                                     !.clients = @ \cup {sx.g.providers[sx.g.i]}])
       \/ sx' = AfterGateway(sx, CatchProviderError(sx.g))
    /\ UNCHANGED <<chatVars, rx, cx, gx, kx, hx, mx, ux>>

\* inside getAvailableTools: client.listTools() returns or throws
StatusListReturns ==
    /\ sx.pc = "gateway" /\ sx.g.pc = "list"
    /\ \/ sx' = AfterGateway(sx, Iterate([sx.g EXCEPT
                                     !.tools = PushTools(@, sx.g.providers[sx.g.i]),
                                     !.i = @ + 1, !.listed = Append(@, TRUE)]))
       \/ sx' = AfterGateway(sx, CatchProviderError(sx.g))
    /\ UNCHANGED <<chatVars, rx, cx, gx, kx, hx, mx, ux>>

StatusNext ==
    \/ StatusReceive
    \/ StatusTokenReturns
    \/ StatusConnectReturns
    \/ StatusListReturns

StatusSpec == StatusInit /\ [][StatusNext]_vars

(***************************************************************************)
(* Properties of getChatStatus.                                            *)
(***************************************************************************)
\* a status query has been answered
StatusAnswered == sx.pc = "idle" /\ sx.query > 0

\* the tool names a provider's server lists
ListedBy(p) == {ToolList(p)[i] : i \in 1 .. Len(ToolList(p))}

\* C26: getChatStatus reports connectedProviders as exactly the providers whose
\* credential is non-null and exposes only tool names listed by those providers;
\* with no credential it returns authenticated = false with empty provider and
\* tool lists without contacting the gateway; in no case does it dispatch a tool
\* call.  (When the credential lookup itself throws there are no credentials to
\* report and the answer is the status 500.)
C26_StatusReflectsCredentials ==
    /\ sx.pc # "off" => sx.nCallTool = 0
    /\ StatusAnswered
         => IF sx.tokenThrew
              THEN sx.res = StatusErrorResponse /\ sx.nGetTools = 0
              ELSE /\ sx.res.status = 200
                   /\ \A p \in {"gmail", "teams"} :
                        (\E i \in 1 .. Len(sx.res.connectedProviders) :
                            sx.res.connectedProviders[i] = p)
                        <=> (IF p = "gmail" THEN sx.googleAccessToken # NULL
                             ELSE sx.microsoftAccessToken # NULL)
                   /\ Len(sx.res.connectedProviders) <= 2
                   /\ \A i \in 1 .. Len(sx.res.availableTools) :
                        \E j \in 1 .. Len(sx.res.connectedProviders) :
                           sx.res.availableTools[i]
                               \in ListedBy(sx.res.connectedProviders[j])
                   /\ (sx.googleAccessToken = NULL /\ sx.microsoftAccessToken = NULL)
                        => /\ ~sx.res.authenticated
                           /\ sx.res.connectedProviders = <<>>
                           /\ sx.res.availableTools = <<>>
                           /\ sx.nGetTools = 0

\* both credentials present, the Gmail server failed to list its tools: both
\* providers are reported and only the Teams tools are exposed
C26_Witness ==
    /\ StatusAnswered
    /\ sx.res.status = 200
    /\ sx.res.connectedProviders = <<"gmail", "teams">>
    /\ sx.res.availableTools = ToolList("teams")
    /\ sx.nGetTools = 1

(***************************************************************************)
(* MCPClientManager: the gateway's clients and transports.  The one        *)
(* exported manager serves every request; getAvailableTools, callTool and  *)
(* disconnect run interleaved at their awaits.  A transport is named by    *)
(* its position in mx.started, a client by the transport it is connected   *)
(* to, 0 stands for null.                                                  *)
(***************************************************************************)
\* number of getAvailableTools, callTool and disconnect invocations in a
\* behaviour of the model
MaxInvocations == 3

\* the providers connectGmail and connectTeams serve
Connectable == {"gmail", "teams"}

\* this.clients / this.transports as the constructor and disconnect() set them
NoConnections == [p \in Connectable |-> 0]

\* Object.entries(map) restricted to the entries that are not null
NonNull(map) ==
    (IF map["gmail"] # 0 THEN <<map["gmail"]>> ELSE <<>>)
    \o (IF map["teams"] # 0 THEN <<map["teams"]>> ELSE <<>>)

NoInvocation == [op |-> "none", pc |-> "idle", todo |-> <<>>, t |-> 0]

NoDisconnect == [pc |-> "idle", snap |-> <<>>, k |-> 0]

\* connectGmail / connectTeams up to the await: the client if there is one,
\* else a new transport, stored in this.transports before client.connect
\* starts its subprocess
connect(m, s, p) ==
    IF m.clients[p] # 0
      THEN [m EXCEPT !.calls[s].pc = "request", !.calls[s].t = m.clients[p]]
      ELSE [m EXCEPT !.started = Append(@, [provider |-> p, closed |-> FALSE,
                                            epoch |-> m.epoch]),
                     !.transports[p] = Len(m.started) + 1,
                     !.calls[s].pc = "connect",
                     !.calls[s].t = Len(m.started) + 1]

\* the invocation goes on with the providers it has left
Proceed(m, s) ==
    IF m.calls[s].todo = <<>> THEN [m EXCEPT !.calls[s] = NoInvocation]
    ELSE connect(m, s, Head(m.calls[s].todo))

\* disconnect(): this.clients = {...null}; this.transports = {...null}
ResetConnections(m) ==
    [m EXCEPT !.clients = NoConnections, !.transports = NoConnections,
              !.d = NoDisconnect]

\* disconnect() up to its next await: the clients first, then the transports
\* stored when the first loop has ended, then the reset
Closing(m) ==
    IF m.d.k <= Len(m.d.snap) THEN m
    ELSE IF m.d.pc = "clients" /\ NonNull(m.transports) # <<>>
      THEN [m EXCEPT !.d = [pc |-> "transports", snap |-> NonNull(m.transports),
                            k |-> 1]]
    ELSE ResetConnections(m)

\* the manager after construction
ConnectInit ==
    /\ ChatIdle
    /\ rx = RxIdle
    /\ cx = CxIdle
    /\ gx = GxIdle
    /\ kx = KxIdle
    /\ hx = HxIdle
    /\ sx = SxIdle
    /\ ux = UxIdle
    /\ mx = [pc |-> "on", clients |-> NoConnections, transports |-> NoConnections,
             started |-> <<>>, epoch |-> 0, nOps |-> 0,
             calls |-> [s \in Slots |-> NoInvocation], d |-> NoDisconnect]

\* a request calls getAvailableTools(providers) or callTool(provider, ...)
Invoke ==
    /\ mx.pc = "on"
    /\ mx.nOps < MaxInvocations
    /\ \E s \in Slots, op \in {"getAvailableTools", "callTool"},
          todo \in {<<"gmail">>, <<"teams">>, <<"gmail", "teams">>} :
         /\ s = FreeSlot(mx.calls)
         /\ mx.calls[s].pc = "idle"
         /\ op = "callTool" => Len(todo) = 1
         /\ mx' = Proceed([mx EXCEPT !.nOps = @ + 1,
                                     !.calls[s] = [NoInvocation EXCEPT !.op = op,
                                                                       !.todo = todo]],
                          s)
    /\ UNCHANGED <<chatVars, rx, cx, gx, kx, hx, sx, ux>>

\* await client.connect(transport) settles: this.clients[p] = client, or the
\* error is rethrown (the subprocess may or may not be left running);
\* getAvailableTools logs it and goes on, callTool throws
ConnectSettles ==
    /\ mx.pc = "on"
    /\ \E s \in Slots :
         LET c == mx.calls[s]
             p == Head(c.todo)
         IN
         /\ c.pc = "connect"
         /\ \/ mx' = [mx EXCEPT !.clients[p] = c.t, !.calls[s].pc = "request"]
            \/ \E exited \in BOOLEAN :
                 mx' = Proceed([mx EXCEPT !.started[c.t].closed = exited,
                                          !.calls[s].todo =
                                              IF c.op = "callTool" THEN <<>> ELSE Tail(@)],
                               s)
    /\ UNCHANGED <<chatVars, rx, cx, gx, kx, hx, sx, ux>>

\* await client.listTools() / client.callTool(...) settles
RequestSettles ==
    /\ mx.pc = "on"
    /\ \E s \in Slots :
         /\ mx.calls[s].pc = "request"
         /\ mx' = Proceed([mx EXCEPT !.calls[s].todo = Tail(@)], s)
    /\ UNCHANGED <<chatVars, rx, cx, gx, kx, hx, sx, ux>>

\* disconnect() is called (one at a time)
DisconnectCalled ==
    /\ mx.pc = "on"
    /\ mx.nOps < MaxInvocations
    /\ mx.d.pc = "idle"
    /\ mx' = Closing([mx EXCEPT !.nOps = @ + 1, !.epoch = @ + 1,
                                !.d = [pc |-> "clients", snap |-> NonNull(mx.clients),
                                       k |-> 1]])
    /\ UNCHANGED <<chatVars, rx, cx, gx, kx, hx, sx, ux>>

\* await client.close() / await transport.close() settles; an error is logged
CloseSettles ==
    /\ mx.pc = "on"
    /\ mx.d.pc # "idle"
    /\ \E ok \in BOOLEAN :
         mx' = Closing([mx EXCEPT !.started[mx.d.snap[mx.d.k]].closed = @ \/ ok,
                                  !.d.k = @ + 1])
    /\ UNCHANGED <<chatVars, rx, cx, gx, kx, hx, sx, ux>>

ConnectNext ==
    \/ Invoke
    \/ ConnectSettles
    \/ RequestSettles
    \/ DisconnectCalled
    \/ CloseSettles

ConnectSpec == ConnectInit /\ [][ConnectNext]_vars

\* the transports of a provider started since the last disconnect() call and
\* still running
Running(p) ==
    {t \in 1 .. Len(mx.started) : /\ mx.started[t].provider = p
                                  /\ mx.started[t].epoch = mx.epoch
                                  /\ ~mx.started[t].closed}

\* C36: under any interleaving of concurrent getAvailableTools / callTool
\* invocations, MCPClientManager starts at most one server subprocess
\* (transport) per provider between two disconnect() calls, and every transport
\* it has started is either the one stored in transports[provider] or has been
\* closed.
C36_OneTransportPerProvider ==
    mx.pc = "on"
    => /\ \A p \in Connectable : Cardinality(Running(p)) <= 1
       /\ \A t \in 1 .. Len(mx.started) :
            mx.started[t].closed \/ mx.transports[mx.started[t].provider] = t

(***************************************************************************)
(* Sessions: the token store (Redis, one key per session id) and the       *)
(* auth_token cookie of one client, whose requests are handled one after   *)
(* the other: the OAuth callbacks, logout, and the credential lookup of a  *)
(* chat or status request.                                                 *)
(***************************************************************************)
\* number of requests the client makes in a behaviour of the model
MaxRequests == 5

\* number of session ids the callbacks create in a behaviour of the model
MaxSessions == 2

\* no auth_token cookie; no value under a key of the store
NoSession == 0

\* the fields of userData that logout and getUserAccessToken look at
NoUserData == [googleTokens |-> FALSE, googleAccessToken |-> NULL,
               googleRefreshToken |-> NULL,
               microsoftTokens |-> FALSE, microsoftAccessToken |-> NULL]

\* existingData of a callback: the session of the cookie and its data, or a new
\* session id and {}
SessionOf(u) == IF u.cookie # NoSession THEN u.cookie ELSE u.nSessions + 1

ExistingData(u) ==
    IF u.cookie # NoSession /\ u.store[u.cookie] # <<>> THEN u.store[u.cookie][1]
    ELSE NoUserData

\* googleCallback: userData = {...existingData, googleTokens, googleAccessToken,
\* googleRefreshToken}; redis.set; setTokenCookie
googleCallback(u, tokens) ==
    [u EXCEPT !.store[SessionOf(u)] =
                  <<[ExistingData(u) EXCEPT !.googleTokens = TRUE,
                                            !.googleAccessToken = tokens.access_token,
                                            !.googleRefreshToken = tokens.refresh_token]>>,
              !.cookie = SessionOf(u),
              !.nSessions = IF u.cookie = NoSession THEN @ + 1 ELSE @]

\* microsoftCallback: userData = {...existingData, microsoftTokens,
\* microsoftAccessToken}; redis.set; setTokenCookie
microsoftCallback(u, accessToken) ==
    [u EXCEPT !.store[SessionOf(u)] =
                  <<[ExistingData(u) EXCEPT !.microsoftTokens = TRUE,
                                            !.microsoftAccessToken = accessToken]>>,
              !.cookie = SessionOf(u),
              !.nSessions = IF u.cookie = NoSession THEN @ + 1 ELSE @]

\* logout: the userData left under the key, <<>> when the key is deleted
AfterLogout(userData, provider) ==
    IF provider \notin {"microsoft", "google"} THEN <<>>
    ELSE IF userData = <<>> THEN <<>>
    ELSE LET left == IF provider = "microsoft"
                       THEN [userData[1] EXCEPT !.microsoftTokens = FALSE,
                                                !.microsoftAccessToken = NULL]
                       ELSE [userData[1] EXCEPT !.googleTokens = FALSE,
                                                !.googleAccessToken = NULL,
                                                !.googleRefreshToken = NULL]
         IN  IF ~left.googleTokens /\ ~left.microsoftTokens THEN <<>> ELSE <<left>>

\* logout: the store is changed if the request has a cookie; clearTokenCookie(res)
\* in every case
logout(u, provider) ==
    [u EXCEPT !.store = IF u.cookie = NoSession THEN @
                        ELSE [@ EXCEPT ![u.cookie] = AfterLogout(@, provider)],
              !.cookie = NoSession]

\* getUserAccessToken: both null without a cookie or without the key
getUserAccessToken(u) ==
    IF u.cookie = NoSession \/ u.store[u.cookie] = <<>>
      THEN [googleAccessToken |-> NULL, microsoftAccessToken |-> NULL]
      ELSE [googleAccessToken |-> u.store[u.cookie][1].googleAccessToken,
            microsoftAccessToken |-> u.store[u.cookie][1].microsoftAccessToken]

NoRequest == [op |-> "none", provider |-> "none", held |-> NoUserData,
              obtained |-> [googleAccessToken |-> NULL, microsoftAccessToken |-> NULL]]

\* an empty store and a client without a cookie
SessionInit ==
    /\ ChatIdle
    /\ rx = RxIdle
    /\ cx = CxIdle
    /\ gx = GxIdle
    /\ kx = KxIdle
    /\ hx = HxIdle
    /\ sx = SxIdle
    /\ mx = MxIdle
    /\ ux = [pc |-> "on", cookie |-> NoSession, nSessions |-> 0, nRequests |-> 0,
             store |-> [s \in 1 .. MaxSessions + 1 |-> <<>>],
             last |-> NoRequest, before |-> NoRequest]

\* the record of the request handled last, and of the one before it
Handled(u, op, provider) ==
    [u EXCEPT !.nRequests = @ + 1,
              !.before = ux.last,
              !.last = [op |-> op, provider |-> provider, held |-> ExistingData(ux),
                        obtained |-> IF op = "request" THEN getUserAccessToken(ux)
                                     ELSE NoRequest.obtained]]

\* GET /google/callback: the code is exchanged (a refresh token comes with the
\* first consent only) or the exchange fails and nothing is stored
GoogleCallback ==
    /\ ux.pc = "on" /\ ux.nRequests < MaxRequests
    /\ SessionOf(ux) <= MaxSessions
    /\ \/ \E access \in {GoogleToken, OtherGoogleToken}, refresh \in {NULL, "refresh"} :
            ux' = Handled(googleCallback(ux, [access_token |-> access,
                                              refresh_token |-> refresh]),
                          "login", "google")
       \/ ux' = Handled(ux, "loginFailed", "google")
    /\ UNCHANGED <<chatVars, rx, cx, gx, kx, hx, sx, mx>>

\* the Microsoft callback
MicrosoftCallback ==
    /\ ux.pc = "on" /\ ux.nRequests < MaxRequests
    /\ SessionOf(ux) <= MaxSessions
    /\ \/ ux' = Handled(microsoftCallback(ux, MicrosoftToken), "login", "microsoft")
       \/ ux' = Handled(ux, "loginFailed", "microsoft")
    /\ UNCHANGED <<chatVars, rx, cx, gx, kx, hx, sx, mx>>

\* POST /logout/:provider
Logout ==
    /\ ux.pc = "on" /\ ux.nRequests < MaxRequests
    /\ \E provider \in {"google", "microsoft", "all"} :
         ux' = Handled(logout(ux, provider), "logout", provider)
    /\ UNCHANGED <<chatVars, rx, cx, gx, kx, hx, sx, mx>>

\* a chat or status request: getUserAccessToken(req)
TokenLookup ==
    /\ ux.pc = "on" /\ ux.nRequests < MaxRequests
    /\ ux' = Handled(ux, "request", "none")
    /\ UNCHANGED <<chatVars, rx, cx, gx, kx, hx, sx, mx>>

SessionNext ==
    \/ GoogleCallback
    \/ MicrosoftCallback
    \/ Logout
    \/ TokenLookup

SessionSpec == SessionInit /\ [][SessionNext]_vars

\* a chat or status request that follows a logout of a session that held both
\* credentials
AfterLogoutOfBoth ==
    /\ ux.pc = "on"
    /\ ux.last.op = "request" /\ ux.before.op = "logout"
    /\ ux.before.held.googleAccessToken # NULL
    /\ ux.before.held.microsoftAccessToken # NULL

\* C37: for a session holding both a Google and a Microsoft credential, logout
\* with provider 'google' removes only the Google tokens: a subsequent chat or
\* status request from the same client still obtains the Microsoft access
\* token (and symmetrically for provider 'microsoft'); only a logout naming
\* neither provider removes both.
C37_LogoutRemovesNamedProviderOnly ==
    AfterLogoutOfBoth
    => LET held == ux.before.held
           obtained == ux.last.obtained
       IN  /\ obtained.googleAccessToken =
                IF ux.before.provider = "microsoft" THEN held.googleAccessToken
                ELSE NULL
           /\ obtained.microsoftAccessToken =
                IF ux.before.provider = "google" THEN held.microsoftAccessToken
                ELSE NULL

====
